---- MODULE Spec2Model ----
\* Citation engine of the Canadian tax chatbot (src/src/chat/citations.py):
\* extraction of citations from a generated answer, validation against the
\* retrieved chunks, and URL derivation.
\* Section-aware chunker (src/src/loaders/chunker.py): one chunk per section
\* within the token budget, one chunk per subsection otherwise, and the loop
\* of src/scripts/ingest_corpus.py that collects the chunks of a document.
\*
\* A Python str is modelled as a sequence of one-character strings, so that the
\* regular expressions of the source are matched character by character.
EXTENDS Integers, Sequences, FiniteSets, TLC

VARIABLES
    pc,             \* position of the caller: "input", "extracted", "validated", "url"
    retrieved,      \* list of SearchResult.metadata dicts handed to validate_citations
    answer,         \* the phrases the language model wrote, in order (structure of response_text)
    response_text,  \* the answer string passed to extract_citations
    citations,      \* list of Citation objects
    url_arg,        \* the parts of the reference passed to generate_url
    url,            \* result of generate_url: None or Some(string)
    cpc,            \* position of the chunker's caller: "input", "chunked", "rechunked", "joined", "ingesting", "failed"
    section,        \* the Section passed to chunk_section
    max_tokens,     \* its max_tokens argument
    overlap_tokens, \* its overlap_tokens argument
    chunks,         \* the list of Chunk objects it returned
    error,          \* None, or Some(exception) when a call raised
    again,          \* a second call of chunk_section: its arguments and its outcome
    document,       \* ingest_corpus: the sections of the document chunked so far
    all_chunks,     \* ingest_corpus: the chunks collected from them
    ppc,            \* position of the parser's caller: "input", "parsed", "reparsed"
    xml_root,       \* the root element of the document passed to parse_justice_xml
    parsed,         \* the list of Section objects it returned
    twin_parsed,    \* the list returned for the same document without its default namespace
    apc,            \* position in Chatbot.ask: "idle", "retrieved", "generated", "returned"
    self_k,         \* Chatbot.k
    question,       \* the argument of ask
    search_results, \* ask: results, the list the retriever returned
    context,        \* ask: context
    messages,       \* ask: messages
    llm_response,   \* ask: llm_response, None before the provider has answered
    response,       \* the ChatResponse returned, None before
    calls           \* the calls ask has made so far, in order

parser_vars == <<ppc, xml_root, parsed, twin_parsed>>
ask_vars ==
    <<apc, self_k, question, search_results, context, messages, llm_response, response, calls>>
citation_vars == <<pc, retrieved, answer, response_text, citations, url_arg, url>>
chunker_vars ==
    <<cpc, section, max_tokens, overlap_tokens, chunks, error, again, document, all_chunks>>
vars == <<citation_vars, chunker_vars, parser_vars, ask_vars>>

----------------------------------------------------------------------------
\* Bounds of the model

MaxPhrases == 2
MaxRetrieved == 1
MaxCitations == 2

----------------------------------------------------------------------------
\* Characters and strings

Digit == {"0", "1", "2", "3", "4", "5", "6", "7", "8", "9"}
LowerCase == {"a", "b", "c", "d", "e", "f", "g", "h", "i", "j", "k", "l", "m",
              "n", "o", "p", "q", "r", "s", "t", "u", "v", "w", "x", "y", "z"}
UpperCase == {"A", "B", "C", "D", "E", "F", "G", "H", "I", "J", "K", "L", "M",
              "N", "O", "P", "Q", "R", "S", "T", "U", "V", "W", "X", "Y", "Z"}
Whitespace == {" ", "\n", "\t"}
Quote == {"\"", "'"}
WordChar == Digit \cup LowerCase \cup UpperCase \cup {"_"}

\* Optional values: None, or Some(v)
\* Chatbot.__init__: k = 5
DefaultK == 5

None == << >>
Some(v) == <<v>>

\* str.strip()
RECURSIVE LStrip(_)
LStrip(s) == IF s # << >> /\ Head(s) \in Whitespace THEN LStrip(Tail(s)) ELSE s
RECURSIVE RStrip(_)
RStrip(s) ==
    IF s # << >> /\ s[Len(s)] \in Whitespace THEN RStrip(SubSeq(s, 1, Len(s) - 1)) ELSE s
Strip(s) == RStrip(LStrip(s))

\* Matchers return the position after the match, or 0 when there is none; a
\* matcher started at position 0 fails, so that a failure carries through.

\* cls* : the position after the longest run of characters of class cls at i
RECURSIVE SkipClass(_, _, _)
SkipClass(t, i, cls) ==
    IF i >= 1 /\ i <= Len(t) /\ t[i] \in cls THEN SkipClass(t, i + 1, cls) ELSE i

\* cls+ : as cls*, and at least one character
SkipSome(t, i, cls) == IF i >= 1 /\ i <= Len(t) /\ t[i] \in cls THEN SkipClass(t, i + 1, cls) ELSE 0

\* A literal at position i. alts[k] is the set of characters the k-th character
\* of the literal may be (both cases under re.IGNORECASE).
MatchLiteral(t, i, alts) ==
    IF i >= 1 /\ i + Len(alts) - 1 <= Len(t) /\ \A k \in 1..Len(alts) : t[i + k - 1] \in alts[k]
    THEN i + Len(alts)
    ELSE 0

\* An optional group tried at position i: the position after it when it matched
Optional(matched, i) == IF matched = 0 THEN i ELSE matched

\* \b at position i (between t[i-1] and t[i])
WordBoundary(t, i) ==
    LET before == i - 1 >= 1 /\ i - 1 <= Len(t) /\ t[i - 1] \in WordChar
        after == i >= 1 /\ i <= Len(t) /\ t[i] \in WordChar
    IN before # after

----------------------------------------------------------------------------
\* The sub-patterns shared by the three grammars

\* Mutant of MatchAbbreviation: whitespace tolerated after "s." as well
MatchAbbreviation_LooseSpace(t, i) ==
    SkipClass(t,
              MatchLiteral(t,
                           SkipSome(t, MatchLiteral(t, i, <<{"I", "i"}, {"T", "t"}, {"A", "a"}>>),
                                    Whitespace),
                           <<{"s", "S"}, {"."}>>),
              Whitespace)

\* ITA\s+s\.   under re.IGNORECASE
MatchAbbreviation(t, i) ==
    MatchLiteral(t,
                 SkipSome(t, MatchLiteral(t, i, <<{"I", "i"}, {"T", "t"}, {"A", "a"}>>), Whitespace),
                 <<{"s", "S"}, {"."}>>)

\* \(\d+\)
MatchSubsection(t, i) ==
    MatchLiteral(t, SkipSome(t, MatchLiteral(t, i, <<{"("}>>), Digit), <<{")"}>>)

\* \([a-z]\)   ; letters is a-z, and A-Z as well under re.IGNORECASE
MatchParagraph(t, i, letters) == MatchLiteral(t, i, <<{"("}, letters, {")"}>>)

\* \d+(?:\(\d+\))?(?:\([a-z]\))?   greedy: [digits, sub, para], the positions
\* after the digits, after the optional subsection group and after the optional
\* paragraph group; all 0 when there is no digit at i.
SectionRefEnds(t, d, s, letters) ==
    [digits |-> d, sub |-> s, para |-> Optional(MatchParagraph(t, s, letters), s)]
SectionRefFrom(t, d, letters) ==
    IF d = 0 THEN [digits |-> 0, sub |-> 0, para |-> 0]
    ELSE SectionRefEnds(t, d, Optional(MatchSubsection(t, d), d), letters)
MatchSectionRef(t, i, letters) == SectionRefFrom(t, SkipSome(t, i, Digit), letters)

\* re.search(r"s\.(\d+)", s): Some(group 1) of the leftmost match, or None
RECURSIVE SearchSectionFrom(_, _)
SearchSectionFrom(s, i) ==
    IF i > Len(s) THEN None
    ELSE LET d == SkipSome(s, MatchLiteral(s, i, <<{"s"}, {"."}>>), Digit)
         IN IF d # 0 THEN Some(SubSeq(s, i + 2, d - 1))
            ELSE SearchSectionFrom(s, i + 1)
SearchSection(s) == SearchSectionFrom(s, 1)

----------------------------------------------------------------------------
\* generate_url

BaseUrl == <<"h", "t", "t", "p", "s", ":", "/", "/", "l", "a", "w", "s", "-", "l", "o", "i", "s",
             ".", "j", "u", "s", "t", "i", "c", "e", ".", "g", "c", ".", "c", "a", "/", "e", "n",
             "g", "/", "a", "c", "t", "s", "/", "I", "-", "3", ".", "3">>

\* Mutant of generate_url: the whole reference formatted into the URL
generate_url_FullReference(reference) ==
    LET match == SearchSection(reference)
    IN IF match = None THEN None
       ELSE Some(BaseUrl \o <<"/", "s", "e", "c", "t", "i", "o", "n", "-">> \o reference
                 \o <<".", "h", "t", "m", "l">>)

generate_url(reference) ==
    LET match == SearchSection(reference)
    IN IF match = None THEN None
       ELSE Some(BaseUrl \o <<"/", "s", "e", "c", "t", "i", "o", "n", "-">> \o match[1]
                 \o <<".", "h", "t", "m", "l">>)

Citation(reference, text, u, validated) ==
    [reference |-> reference, text |-> text, url |-> u, validated |-> validated]

----------------------------------------------------------------------------
\* extract_citations

Letters == LowerCase \cup UpperCase

\* [^"']+ : the position after the longest run of non-quote characters
RECURSIVE SkipUnquoted(_, _)
SkipUnquoted(t, i) ==
    IF i >= 1 /\ i <= Len(t) /\ t[i] \notin Quote THEN SkipUnquoted(t, i + 1) ELSE i
SkipSomeUnquoted(t, i) ==
    IF i >= 1 /\ i <= Len(t) /\ t[i] \notin Quote THEN SkipUnquoted(t, i + 1) ELSE 0

\* citation_block_pattern at position i, under re.IGNORECASE:
\*   -\s*(ITA\s+s\.\d+(?:\(\d+\))?(?:\([a-z]\))?)\s*:\s*["\']([^"\']+)["\']
\* end = 0 when there is no match at i.
MatchCitationBlock(t, i) ==
    LET r0 == SkipClass(t, MatchLiteral(t, i, <<{"-"}>>), Whitespace)
        r1 == MatchSectionRef(t, MatchAbbreviation(t, r0), Letters).para
        colon == MatchLiteral(t, SkipClass(t, r1, Whitespace), <<{":"}>>)
        q0 == MatchLiteral(t, SkipClass(t, colon, Whitespace), <<Quote>>)
        q1 == SkipSomeUnquoted(t, q0)
        e == MatchLiteral(t, q1, <<Quote>>)
    IN IF e = 0 THEN [end |-> 0, reference |-> << >>, text |-> << >>]
       ELSE [end |-> e, reference |-> SubSeq(t, r0, r1 - 1), text |-> SubSeq(t, q0, q1 - 1)]

\* re.findall(citation_block_pattern, response_text, re.IGNORECASE), from position i
RECURSIVE FindCitationBlocks(_, _)
FindCitationBlocks(t, i) ==
    IF i > Len(t) THEN << >>
    ELSE LET m == MatchCitationBlock(t, i)
         IN IF m.end = 0 THEN FindCitationBlocks(t, i + 1)
            ELSE <<[reference |-> m.reference, text |-> m.text]>> \o FindCitationBlocks(t, m.end)

\* inline_pattern at position i, under re.IGNORECASE:
\*   ITA\s+s\.(\d+(?:\(\d+\))?(?:\([a-z]\))?)
MatchInline(t, i) ==
    LET ab == MatchAbbreviation(t, i)
        e == MatchSectionRef(t, ab, Letters).para
    IN IF e = 0 THEN [end |-> 0, group |-> << >>]
       ELSE [end |-> e, group |-> SubSeq(t, ab, e - 1)]

\* re.findall(inline_pattern, response_text, re.IGNORECASE), from position i
RECURSIVE FindInline(_, _)
FindInline(t, i) ==
    IF i > Len(t) THEN << >>
    ELSE LET m == MatchInline(t, i)
         IN IF m.end = 0 THEN FindInline(t, i + 1)
            ELSE <<m.group>> \o FindInline(t, m.end)

\* The trailing \b of section_only_pattern: the matcher gives back the
\* paragraph group, then the subsection group, until the reference ends at a
\* word boundary.
EndAtBoundary(t, ref) ==
    IF ref.digits = 0 THEN 0
    ELSE IF WordBoundary(t, ref.para) THEN ref.para
    ELSE IF WordBoundary(t, ref.sub) THEN ref.sub
    ELSE IF WordBoundary(t, ref.digits) THEN ref.digits
    ELSE 0

\* section_only_pattern at position i, case-sensitive:
\*   \bSection\s+(\d+(?:\(\d+\))?(?:\([a-z]\))?)\b
MatchSectionOnly(t, i) ==
    LET g0 == SkipSome(t,
                       IF WordBoundary(t, i)
                       THEN MatchLiteral(t, i, <<{"S"}, {"e"}, {"c"}, {"t"}, {"i"}, {"o"}, {"n"}>>)
                       ELSE 0,
                       Whitespace)
        e == EndAtBoundary(t, MatchSectionRef(t, g0, LowerCase))
    IN IF e = 0 THEN [end |-> 0, group |-> << >>]
       ELSE [end |-> e, group |-> SubSeq(t, g0, e - 1)]

\* re.findall(section_only_pattern, response_text), from position i
RECURSIVE FindSectionOnly(_, _)
FindSectionOnly(t, i) ==
    IF i > Len(t) THEN << >>
    ELSE LET m == MatchSectionOnly(t, i)
         IN IF m.end = 0 THEN FindSectionOnly(t, i + 1)
            ELSE <<m.group>> \o FindSectionOnly(t, m.end)

ItaS == <<"I", "T", "A", " ", "s", ".">>

\* Pattern 1 loop: one Citation per block match, reference and text as captured
RECURSIVE BlockCitations(_)
BlockCitations(matches) ==
    IF matches = << >> THEN << >>
    ELSE <<Citation(Head(matches).reference, Strip(Head(matches).text),
                    generate_url(Head(matches).reference), FALSE)>>
         \o BlockCitations(Tail(matches))

\* Mutant of AppendUnseen: the membership test dropped
RECURSIVE AppendUnseen_NoCheck(_, _)
AppendUnseen_NoCheck(cits, section_refs) ==
    IF section_refs = << >> THEN cits
    ELSE AppendUnseen_NoCheck(
            Append(cits, Citation(ItaS \o Head(section_refs), << >>,
                                  generate_url(ItaS \o Head(section_refs)), FALSE)),
            Tail(section_refs))

\* Pattern 2 and 3 loops: reference = f"ITA s.{section_ref}", appended only if no
\* citation of the list has that reference
RECURSIVE AppendUnseen(_, _)
AppendUnseen(cits, section_refs) ==
    IF section_refs = << >> THEN cits
    ELSE LET reference == ItaS \o Head(section_refs)
         IN IF \E k \in 1..Len(cits) : cits[k].reference = reference
            THEN AppendUnseen(cits, Tail(section_refs))
            ELSE AppendUnseen(Append(cits, Citation(reference, << >>, generate_url(reference), FALSE)),
                              Tail(section_refs))

extract_citations(text) ==
    LET block == BlockCitations(FindCitationBlocks(text, 1))
        inline == AppendUnseen(block, FindInline(text, 1))
    IN AppendUnseen(inline, FindSectionOnly(text, 1))

----------------------------------------------------------------------------
\* validate_citations

\* A metadata dict is a set of <<key, value>> pairs; dict.get(key, "")
Get(metadata, key) ==
    IF \E kv \in metadata : kv[1] = key
    THEN (CHOOSE kv \in metadata : kv[1] = key)[2]
    ELSE << >>

\* Mutant of retrieved_sections: the `reference` field is not parsed
retrieved_sections_SectionOnly(results) ==
    UNION { (IF Get(results[k], "section") # << >> THEN {Get(results[k], "section")} ELSE {})
            : k \in 1..Len(results) }

\* The set of section numbers of the retrieved chunks
retrieved_sections(results) ==
    UNION { (IF Get(results[k], "section") # << >> THEN {Get(results[k], "section")} ELSE {})
            \cup
            (IF Get(results[k], "reference") # << >>
                /\ SearchSection(Get(results[k], "reference")) # None
             THEN {SearchSection(Get(results[k], "reference"))[1]}
             ELSE {}) : k \in 1..Len(results) }

\* Mutant of ValidateOne: exact-reference policy, a reference below section
\* level is not validated
ValidateOne_Strict(citation, sections) ==
    LET match == SearchSection(citation.reference)
    IN [citation EXCEPT !.validated =
            IF match # None
            THEN match[1] \in sections /\ citation.reference = ItaS \o match[1]
            ELSE FALSE]

\* Mutant of ValidateOne: the flag is left as it was when no section number parses
ValidateOne_KeepsFlag(citation, sections) ==
    LET match == SearchSection(citation.reference)
    IN IF match # None THEN [citation EXCEPT !.validated = match[1] \in sections]
       ELSE citation

\* Mutant of ValidateOne: a flag that is already set is never cleared
ValidateOne_OnlyRaises(citation, sections) ==
    LET match == SearchSection(citation.reference)
    IN [citation EXCEPT !.validated =
            citation.validated \/ (IF match # None THEN match[1] \in sections ELSE FALSE)]

\* The loop body: one citation with its validated field overwritten
ValidateOne(citation, sections) ==
    LET match == SearchSection(citation.reference)
    IN [citation EXCEPT !.validated = IF match # None THEN match[1] \in sections ELSE FALSE]

\* Mutant of validate_citations: a citation whose reference was already seen is dropped
RECURSIVE DropRepeated(_, _)
DropRepeated(cits, seen) ==
    IF cits = << >> THEN << >>
    ELSE IF Head(cits).reference \in seen THEN DropRepeated(Tail(cits), seen)
    ELSE <<Head(cits)>> \o DropRepeated(Tail(cits), seen \cup {Head(cits).reference})
validate_citations_Dedup(cits, results) ==
    LET kept == DropRepeated(cits, {})
        sections == retrieved_sections(results)
    IN [k \in 1..Len(kept) |-> ValidateOne(kept[k], sections)]

validate_citations(cits, results) ==
    LET sections == retrieved_sections(results)
    IN [k \in 1..Len(cits) |-> ValidateOne(cits[k], sections)]

----------------------------------------------------------------------------
\* The inputs: what the language model may write, what the retriever may
\* return, and the Citation objects a caller may build by hand

Sec118 == <<"1", "1", "8">>
Sec146 == <<"1", "4", "6">>
Sec7 == <<"7">>
Sub1 == <<"(", "1", ")">>
Sub2 == <<"(", "2", ")">>
ParaLower == <<"(", "a", ")">>
ParaUpper == <<"(", "A", ")">>
ItaSLoose == <<"i", "t", "a", " ", " ", "s", ".">>
ItaMixed == <<"I", "t", "a", " ", "s", ".">>
ItaUpperS == <<"I", "T", "A", " ", "S", ".">>
SectionKw == <<"S", "e", "c", "t", "i", "o", "n", " ">>
SectionKwLower == <<"s", "e", "c", "t", "i", "o", "n", " ">>
NoPart == << >>
InvalidReference == <<"I", "n", "v", "a", "l", "i", "d">>

Phrase(form, kw, num, sub, para, quote) ==
    [form |-> form, kw |-> kw, num |-> num, sub |-> sub, para |-> para, quote |-> quote]

\* One line of answer text each
Phrases ==
    { Phrase("block", ItaS, Sec118, Sub1, NoPart, <<"q">>),            \* - ITA s.118(1): "q"
      Phrase("block", ItaSLoose, Sec118, Sub1, NoPart, <<"r", " ">>),  \* - ita  s.118(1): "r "
      Phrase("block", ItaUpperS, Sec7, NoPart, NoPart, <<"q">>),       \* - ITA S.7: "q"
      Phrase("inline", ItaS, Sec118, Sub1, NoPart, NoPart),            \* See ITA s.118(1).
      Phrase("inline", ItaMixed, Sec7, Sub2, ParaUpper, NoPart),       \* See Ita s.7(2)(A).
      Phrase("malformed", ItaS, Sec7, Sub2, ParaLower, NoPart),        \* - Missing colon ITA s.7(2)(a)
      Phrase("bare", SectionKw, Sec118, Sub1, NoPart, NoPart),         \* Section 118(1) applies
      Phrase("bare", SectionKwLower, Sec7, NoPart, NoPart, NoPart),    \* section 7 applies
      Phrase("prose", NoPart, NoPart, NoPart, NoPart, NoPart) }        \* ITA s. 7, Sections 7

\* The reference as the phrase spells it
Written(p) == p.kw \o p.num \o p.sub \o p.para

Render(p) ==
    CASE p.form = "block" ->
            <<"-", " ">> \o Written(p) \o <<":", " ", "\"">> \o p.quote \o <<"\"">>
      [] p.form = "inline" -> <<"S", "e", "e", " ">> \o Written(p) \o <<".">>
      [] p.form = "malformed" ->
            <<"-", " ", "M", "i", "s", "s", "i", "n", "g", " ", "c", "o", "l", "o", "n", " ">>
            \o Written(p)
      [] p.form = "bare" -> Written(p) \o <<" ", "a", "p", "p", "l", "i", "e", "s">>
      [] p.form = "prose" ->
            <<"I", "T", "A", " ", "s", ".", " ", "7", ",", " ",
              "S", "e", "c", "t", "i", "o", "n", "s", " ", "7">>

\* The answer text: the phrases, one per line
RECURSIVE Lines(_)
Lines(ps) ==
    IF ps = << >> THEN << >>
    ELSE IF Len(ps) = 1 THEN Render(ps[1])
    ELSE Render(Head(ps)) \o <<"\n">> \o Lines(Tail(ps))

\* Metadata dicts of retrieved chunks
Metadatas ==
    { {<<"section", Sec118>>, <<"reference", ItaS \o Sec118>>},
      {<<"reference", ItaS \o Sec7 \o Sub2>>},
      {<<"section", Sec7>>},
      {} }

\* Citation objects built by a caller
CallerCitationSet ==
    { Citation(ItaS \o Sec118 \o Sub1 \o ParaLower, <<"T", "1">>, None, FALSE),
      Citation(ItaS \o Sec118 \o Sub1 \o ParaLower, <<"T", "2">>, None, FALSE),
      Citation(ItaS \o Sec146 \o Sub1, <<"T", "1">>, None, TRUE),
      Citation(InvalidReference, << >>, None, TRUE) }

\* References passed to generate_url: prefix, section number, rest
UrlArgs ==
    { [kw |-> k, num |-> n, rest |-> r] :
        k \in {ItaS, ItaSLoose, ItaUpperS, InvalidReference},
        n \in {Sec118, Sec7, NoPart},
        r \in {NoPart, Sub1, Sub2 \o ParaLower} }

----------------------------------------------------------------------------
\* The state machine

Init ==
    /\ pc = "input"
    /\ retrieved = << >>
    /\ answer = << >>
    /\ response_text = << >>
    /\ citations = << >>
    /\ url_arg = [kw |-> NoPart, num |-> NoPart, rest |-> NoPart]
    /\ url = None
    /\ cpc = "input"
    /\ section = [section_number |-> << >>, marginal_note |-> << >>, subsections |-> << >>]
    /\ max_tokens = 0
    /\ overlap_tokens = 0
    /\ chunks = << >>
    /\ error = None
    /\ again = None
    /\ document = << >>
    /\ all_chunks = << >>
    /\ ppc = "input"
    /\ xml_root = << >>
    /\ parsed = << >>
    /\ twin_parsed = << >>
    /\ apc = "idle"
    /\ self_k = DefaultK
    /\ question = << >>
    /\ search_results = << >>
    /\ context = << >>
    /\ messages = << >>
    /\ llm_response = << >>
    /\ response = << >>
    /\ calls = << >>

\* The retriever returns one more chunk
Retrieve(metadata) ==
    /\ pc = "input"
    /\ citations = << >>
    /\ Len(retrieved) < MaxRetrieved
    /\ retrieved' = Append(retrieved, metadata)
    /\ UNCHANGED <<pc, answer, response_text, citations, url_arg, url>>
    /\ UNCHANGED chunker_vars
    /\ UNCHANGED parser_vars
    /\ UNCHANGED ask_vars

\* The language model writes one more line of the answer
Generate(p) ==
    /\ pc = "input"
    /\ citations = << >>
    /\ Len(answer) < MaxPhrases
    /\ answer' = Append(answer, p)
    /\ response_text' = Lines(answer')
    /\ UNCHANGED <<pc, retrieved, citations, url_arg, url>>
    /\ UNCHANGED chunker_vars
    /\ UNCHANGED parser_vars
    /\ UNCHANGED ask_vars

\* citations = extract_citations(llm_response.content)
ExtractCitations ==
    /\ pc = "input"
    /\ citations = << >>
    /\ citations' = extract_citations(response_text)
    /\ pc' = "extracted"
    /\ UNCHANGED <<retrieved, answer, response_text, url_arg, url>>
    /\ UNCHANGED chunker_vars
    /\ UNCHANGED parser_vars
    /\ UNCHANGED ask_vars

\* A caller builds the citation list itself
CallerCitation(c) ==
    /\ pc = "input"
    /\ answer = << >>
    /\ Len(citations) < MaxCitations
    /\ citations' = Append(citations, c)
    /\ UNCHANGED <<pc, retrieved, answer, response_text, url_arg, url>>
    /\ UNCHANGED chunker_vars
    /\ UNCHANGED parser_vars
    /\ UNCHANGED ask_vars

\* citations = validate_citations(citations, results)
ValidateCitations ==
    /\ \/ pc \in {"extracted", "validated"}
       \/ pc = "input" /\ citations # << >>
    /\ citations' = validate_citations(citations, retrieved)
    /\ pc' = "validated"
    /\ UNCHANGED <<retrieved, answer, response_text, url_arg, url>>
    /\ UNCHANGED chunker_vars
    /\ UNCHANGED parser_vars
    /\ UNCHANGED ask_vars

\* url = generate_url(reference)
GenerateUrl(arg) ==
    /\ pc = "input"
    /\ retrieved = << >> /\ answer = << >> /\ citations = << >>
    /\ url_arg' = arg
    /\ url' = generate_url(arg.kw \o arg.num \o arg.rest)
    /\ pc' = "url"
    /\ UNCHANGED <<retrieved, answer, response_text, citations>>
    /\ UNCHANGED chunker_vars
    /\ UNCHANGED parser_vars
    /\ UNCHANGED ask_vars

Next ==
    \/ \E metadata \in Metadatas : Retrieve(metadata)
    \/ \E p \in Phrases : Generate(p)
    \/ ExtractCitations
    \/ \E c \in CallerCitationSet : CallerCitation(c)
    \/ ValidateCitations
    \/ \E arg \in UrlArgs : GenerateUrl(arg)

Spec == Init /\ [][Next]_vars

----------------------------------------------------------------------------
\* Vocabulary of the properties, stated without the matchers of the model

\* "s." directly followed by a digit, at position i of ref
SectionMarkAt(ref, i) ==
    i + 2 <= Len(ref) /\ ref[i] = "s" /\ ref[i + 1] = "." /\ ref[i + 2] \in Digit

Parsable(ref) == \E i \in 1..Len(ref) : SectionMarkAt(ref, i)

\* The first digit group following "s." in ref (ref is Parsable)
FirstDigitGroup(ref) ==
    LET i == CHOOSE i \in 1..Len(ref) :
                SectionMarkAt(ref, i) /\ \A j \in 1..(i - 1) : ~SectionMarkAt(ref, j)
        e == CHOOSE e \in (i + 2)..Len(ref) :
                /\ \A k \in (i + 2)..e : ref[k] \in Digit
                /\ e = Len(ref) \/ ref[e + 1] \notin Digit
    IN SubSeq(ref, i + 2, e)

\* The known-section set of a list of retrieved chunks: every non-empty
\* `section` value, and the digit group of every parsable `reference` value
KnownSections(results) ==
    LET items == UNION { results[k] : k \in 1..Len(results) }
    IN { kv[2] : kv \in { x \in items : x[1] = "section" /\ x[2] # << >> } }
       \cup
       { FirstDigitGroup(kv[2]) : kv \in { x \in items : x[1] = "reference" /\ Parsable(x[2]) } }

Ref118_1_a == ItaS \o Sec118 \o Sub1 \o ParaLower
Ref146_1 == ItaS \o Sec146 \o Sub1
OnlySection118 == <<{<<"section", Sec118>>, <<"reference", ItaS \o Sec118>>}>>

\* C1: after validate_citations, a citation is validated if and only if the
\* first digit group following "s." in its reference is in the known-section
\* set of the retrieved chunks; subsection and paragraph parts play no role:
\* "ITA s.118(1)(a)" is validated when only section 118 was retrieved, and
\* "ITA s.146(1)" is not.
C1_ValidatedIffSectionKnown ==
    pc = "validated" =>
        \A k \in 1..Len(citations) :
            /\ citations[k].validated
                 <=> /\ Parsable(citations[k].reference)
                     /\ FirstDigitGroup(citations[k].reference) \in KnownSections(retrieved)
            /\ (retrieved = OnlySection118 /\ citations[k].reference = Ref118_1_a)
                 => citations[k].validated
            /\ (retrieved = OnlySection118 /\ citations[k].reference = Ref146_1)
                 => ~citations[k].validated

C1_Witness ==
    /\ pc = "validated"
    /\ retrieved = OnlySection118
    /\ \E k \in 1..Len(citations) :
          citations[k].reference = Ref118_1_a /\ citations[k].validated
    /\ \E k \in 1..Len(citations) :
          citations[k].reference = Ref146_1 /\ ~citations[k].validated

\* C2: the known-section set holds, for each retrieved chunk, its non-empty
\* `section` value and the section number parsed out of its `reference`: a
\* chunk with a parsable reference and no `section` key validates every citation
\* to that section, and chunks with neither key validate nothing.
C2_KnownSetFromSectionAndReference ==
    pc = "validated" =>
        /\ \A k \in 1..Len(citations) : \A j \in 1..Len(retrieved) : \A kv \in retrieved[j] :
              /\ Parsable(citations[k].reference)
              /\ \/ kv[1] = "section" /\ kv[2] = FirstDigitGroup(citations[k].reference)
                 \/ /\ kv[1] = "reference" /\ Parsable(kv[2])
                    /\ FirstDigitGroup(kv[2]) = FirstDigitGroup(citations[k].reference)
              => citations[k].validated
        /\ (\A j \in 1..Len(retrieved) : retrieved[j] = {})
              => \A k \in 1..Len(citations) : ~citations[k].validated

C2_Witness ==
    /\ pc = "validated"
    /\ retrieved = <<{<<"reference", ItaS \o Sec7 \o Sub2>>}>>
    /\ \E k \in 1..Len(citations) :
          citations[k].reference = ItaS \o Sec7 \o Sub2 \o ParaUpper /\ citations[k].validated

\* The reference a phrase stands for, in canonical spelling
Canonical(p) == ItaS \o p.num \o p.sub \o p.para

\* C3: when the answer holds a block-form line for a reference R and an
\* inline-form mention of R, extract_citations returns exactly one Citation
\* whose reference is R, and its text is the block line's quoted text.
C3_BlockAndInlineYieldOne ==
    pc = "extracted" =>
        \A i, j \in 1..Len(answer) :
            /\ answer[i].form = "block"
            /\ answer[j].form \in {"inline", "malformed"}
            /\ Canonical(answer[i]) = Canonical(answer[j])
            => /\ Cardinality({k \in 1..Len(citations) :
                                 citations[k].reference = Canonical(answer[i])}) = 1
               /\ \A k \in 1..Len(citations) :
                     citations[k].reference = Canonical(answer[i])
                     => citations[k].text = Strip(answer[i].quote) /\ citations[k].text # << >>

\* The canonical form "ITA s.<N>[(<sub>)][(<para>)]"
IsCanonical(ref) ==
    /\ Len(ref) > Len(ItaS)
    /\ SubSeq(ref, 1, Len(ItaS)) = ItaS
    /\ LET rest == SubSeq(ref, Len(ItaS) + 1, Len(ref))
           d == CHOOSE d \in 0..Len(rest) :
                   /\ \A k \in 1..d : rest[k] \in Digit
                   /\ d = Len(rest) \/ rest[d + 1] \notin Digit
           tail == SubSeq(rest, d + 1, Len(rest))
           subs == { g \in {SubSeq(tail, 1, e) : e \in 0..Len(tail)} :
                       /\ Len(g) >= 3 /\ g[1] = "(" /\ g[Len(g)] = ")"
                       /\ \A k \in 2..(Len(g) - 1) : g[k] \in Digit }
       IN /\ d >= 1
          /\ \/ tail = << >>
             \/ tail \in subs
             \/ tail \in { <<"(", x, ")">> : x \in Letters }
             \/ \E g \in subs : SubSeq(tail, Len(g) + 1, Len(tail)) \in { <<"(", x, ")">> : x \in Letters }

\* C4: every Citation returned by extract_citations has a reference of the
\* canonical form "ITA s.<N>[(<sub>)][(<para>)]": uppercase abbreviation, one
\* space, whatever case or spacing the answer text used.
C4_ReferencesCanonical ==
    pc = "extracted" => \A k \in 1..Len(citations) : IsCanonical(citations[k].reference)

\* C5: in the three grammars the keywords "ITA", "s." and "Section" are matched
\* case-insensitively and the labels case-sensitively: a bare-section phrase is
\* extracted whatever the case of its keyword, and no uppercase paragraph label
\* is captured.
C5_KeywordsAnyCaseLabelsLowerCase ==
    pc = "extracted" =>
        /\ \A i \in 1..Len(answer) :
              answer[i].form = "bare"
              => \E k \in 1..Len(citations) :
                    /\ Parsable(citations[k].reference)
                    /\ FirstDigitGroup(citations[k].reference) = answer[i].num
        /\ \A k \in 1..Len(citations) :
              \A n \in (Len(ItaS) + 1)..Len(citations[k].reference) :
                  citations[k].reference[n] \notin UpperCase

\* The block-form phrases of an answer, in order
RECURSIVE BlockPhrases(_)
BlockPhrases(ps) ==
    IF ps = << >> THEN << >>
    ELSE IF Head(ps).form = "block" THEN <<Head(ps)>> \o BlockPhrases(Tail(ps))
    ELSE BlockPhrases(Tail(ps))

C7_ValidationKeepsList ==
    [][pc' = "validated" =>
          /\ Len(citations') = Len(citations)
          /\ \A k \in 1..Len(citations) :
                /\ citations'[k].reference = citations[k].reference
                /\ citations'[k].text = citations[k].text
                /\ citations'[k].url = citations[k].url]_vars

C7_Witness ==
    /\ pc = "validated"
    /\ Len(citations) = 2
    /\ citations[1].reference = citations[2].reference
    /\ citations[1].text # citations[2].text

\* C8: validate_citations keeps a citation whose reference has no parsable
\* section number and marks it validated = false, whatever was retrieved.
C8_UnparsableKeptUnvalidated ==
    [][pc' = "validated" =>
          \A k \in 1..Len(citations) :
              ~Parsable(citations[k].reference)
              => /\ k <= Len(citations')
                 /\ citations'[k].reference = citations[k].reference
                 /\ ~citations'[k].validated]_vars

C8_Witness ==
    /\ pc = "validated"
    /\ retrieved = <<{}>>
    /\ \E k \in 1..Len(citations) :
          citations[k].reference = InvalidReference /\ ~citations[k].validated

\* C9: extract_citations returns a list of Citation objects for every answer:
\* the empty list when the text holds no recognizable citation, and the
\* recoverable citation of a malformed citation block.
C9_ExtractionDegradesGracefully ==
    pc = "extracted" =>
        /\ \A k \in 1..Len(citations) :
              /\ DOMAIN citations[k] = {"reference", "text", "url", "validated"}
              /\ citations[k].validated = FALSE
        /\ (\A i \in 1..Len(answer) : answer[i].form = "prose") => citations = << >>
        /\ \A i \in 1..Len(answer) :
              answer[i].form = "malformed"
              => \E k \in 1..Len(citations) :
                    citations[k].reference = Canonical(answer[i]) /\ citations[k].text = << >>

C9_Witness ==
    /\ pc = "extracted"
    /\ Len(answer) = 2 /\ answer[1].form = "prose" /\ answer[2].form = "malformed"
    /\ Len(citations) = 1

SectionPath == <<"/", "s", "e", "c", "t", "i", "o", "n", "-">>
HtmlSuffix == <<".", "h", "t", "m", "l">>

\* C10: generate_url returns "<base>/section-<N>.html", N being the first digit
\* group after "s." in the reference, and None when there is no such group;
\* the subsection and paragraph parts never change the URL.
C10_UrlFromSectionNumber ==
    pc = "url" =>
        url = IF url_arg.kw \in {ItaS, ItaSLoose} /\ url_arg.num # << >>
              THEN Some(BaseUrl \o SectionPath \o url_arg.num \o HtmlSuffix)
              ELSE None

C10_Witness ==
    /\ pc = "url"
    /\ url_arg.num = Sec118 /\ url_arg.rest = Sub2 \o ParaLower
    /\ url = Some(BaseUrl \o SectionPath \o Sec118 \o HtmlSuffix)

----------------------------------------------------------------------------
\* Section-aware chunker (src/src/loaders/chunker.py) over the document model
\* of src/src/loaders/xml_parser.py

\* Bounds of the chunker model
MaxSubsections == 2
MaxSections == 2

\* Defaults of chunk_section, also the values ingest_corpus passes
DefaultMaxTokens == 1500
DefaultOverlapTokens == 200

\* Document model: Paragraph, Subsection and Section dataclasses
Paragraph(label, text, subparagraphs) ==
    [label |-> label, text |-> text, subparagraphs |-> subparagraphs]
Subsection(label, text, paragraphs) ==
    [label |-> label, text |-> text, paragraphs |-> paragraphs]
Section(section_number, marginal_note, subsections) ==
    [section_number |-> section_number, marginal_note |-> marginal_note,
     subsections |-> subsections]

\* "\n".join(parts)
RECURSIVE Join(_)
Join(parts) ==
    IF parts = << >> THEN << >>
    ELSE IF Len(parts) = 1 THEN parts[1]
    ELSE parts[1] \o <<"\n">> \o Join(Tail(parts))

\* f"{indent}({x.label}) {x.text}"
Labelled(indent, x) == indent \o <<"(">> \o x.label \o <<")", " ">> \o x.text

Indent2 == <<" ", " ">>
Indent4 == <<" ", " ", " ", " ">>

\* The lines of a paragraph list: each paragraph, then its subparagraphs
RECURSIVE SubparagraphLines(_)
SubparagraphLines(sps) ==
    IF sps = << >> THEN << >>
    ELSE <<Labelled(Indent4, Head(sps))>> \o SubparagraphLines(Tail(sps))
RECURSIVE ParagraphLines(_)
ParagraphLines(ps) ==
    IF ps = << >> THEN << >>
    ELSE <<Labelled(Indent2, Head(ps))>> \o SubparagraphLines(Head(ps).subparagraphs)
         \o ParagraphLines(Tail(ps))
RECURSIVE SubsectionLines(_)
SubsectionLines(sss) ==
    IF sss = << >> THEN << >>
    ELSE <<Labelled(<< >>, Head(sss))>> \o ParagraphLines(Head(sss).paragraphs)
         \o SubsectionLines(Tail(sss))

Dash == <<" ", "-", " ">>

\* Section.get_full_text(): the header line (which ends in a newline of its
\* own, so a blank line follows it), then one line per subsection, paragraph
\* and subparagraph
get_full_text(s) ==
    Join(<<SectionKw \o s.section_number \o Dash \o s.marginal_note \o <<"\n">>>>
         \o SubsectionLines(s.subsections))

\* Section.get_reference()
get_reference(s) == ItaS \o s.section_number
\* tiktoken's cl100k_base encoding (a library, not part of the repository).
\* encode() first refuses a text that holds a special token (its default is
\* disallowed_special="all"), then splits the text with the pattern
\*   '(?i:[sdmt]|ll|ve|re)|[^\r\n\p{L}\p{N}]?\p{L}+|\p{N}{1,3}|
\*   ?[^\s\p{L}\p{N}]+[\r\n]*|\s*[\r\n]+|\s+(?!\S)|\s+
\* and byte-pair encodes each piece on its own: no token spans two pieces.
\* The model takes one token per piece, which is what the short pieces of the
\* texts below encode to, and a lower bound on the token count of any text.
\* The texts hold no apostrophe, so the first alternative never applies.
EndOfText == <<"<", "|", "e", "n", "d", "o", "f", "t", "e", "x", "t", "|", ">">>

\* The text holds the special token at some position
HasSpecialToken(text) ==
    \E i \in 1..(Len(text) - Len(EndOfText) + 1) :
        SubSeq(text, i, i + Len(EndOfText) - 1) = EndOfText

Newline == {"\n", "\r"}
Space == Whitespace \cup Newline

\* [^\s\p{L}\p{N}]+ and its starred form
RECURSIVE SkipPunct(_, _)
SkipPunct(t, i) ==
    IF i >= 1 /\ i <= Len(t) /\ t[i] \notin Space \cup Letters \cup Digit
    THEN SkipPunct(t, i + 1)
    ELSE i
SkipSomePunct(t, i) ==
    IF i >= 1 /\ i <= Len(t) /\ t[i] \notin Space \cup Letters \cup Digit
    THEN SkipPunct(t, i + 1)
    ELSE 0

\* [^\r\n\p{L}\p{N}]?\p{L}+
PieceWord(t, i) ==
    IF t[i] \in Letters THEN SkipClass(t, i, Letters)
    ELSE IF t[i] \in Newline \cup Digit THEN 0
    ELSE SkipSome(t, i + 1, Letters)

\* \p{N}{1,3}
AtMost(e, limit) == IF e > limit THEN limit ELSE e
PieceNumber(t, i) == AtMost(SkipSome(t, i, Digit), i + 3)

\*  ?[^\s\p{L}\p{N}]+[\r\n]*
PiecePunct(t, i) ==
    SkipClass(t, SkipSomePunct(t, IF t[i] = " " THEN i + 1 ELSE i), Newline)

\* \s*[\r\n]+ : the whitespace run from i up to its last newline
RECURSIVE AfterLastNewline(_, _, _)
AfterLastNewline(t, i, e) ==
    IF e <= i THEN 0
    ELSE IF t[e - 1] \in Newline THEN e
    ELSE AfterLastNewline(t, i, e - 1)
PieceNewlines(t, i) == AfterLastNewline(t, i, SkipClass(t, i, Space))

\* \s+(?!\S) : the whitespace run when it ends the text, else the run without
\* its last character when that leaves something
TrailingOrShortened(t, i, e) ==
    IF e = 0 THEN 0
    ELSE IF e > Len(t) THEN e
    ELSE IF e - 1 > i THEN e - 1
    ELSE 0
PieceSpaceBefore(t, i) == TrailingOrShortened(t, i, SkipSome(t, i, Space))

\* \s+
PieceSpace(t, i) == SkipSome(t, i, Space)

\* First alternative that matches
OrElse(a, b) == IF a # 0 THEN a ELSE b

\* The position after the piece that starts at i
NextPiece(t, i) ==
    OrElse(PieceWord(t, i),
    OrElse(PieceNumber(t, i),
    OrElse(PiecePunct(t, i),
    OrElse(PieceNewlines(t, i),
    OrElse(PieceSpaceBefore(t, i), PieceSpace(t, i))))))

RECURSIVE PiecesFrom(_, _, _)
PiecesFrom(t, i, e) ==
    IF i > Len(t) THEN << >>
    ELSE <<SubSeq(t, i, e - 1)>> \o PiecesFrom(t, e, IF e > Len(t) THEN e ELSE NextPiece(t, e))

\* encoder.encode(text), for a text without special token
encode(text) == IF text = << >> THEN << >> ELSE PiecesFrom(text, 1, NextPiece(text, 1))

\* hashlib.md5(text.encode()).hexdigest()[:8] is a 32-bit digest of the text.
\* MD5 is abstracted by a checksum of the same width (two 16-bit sums, as in
\* Fletcher's checksum): a deterministic function of the text alone that,
\* like any 32-bit digest, need not tell two texts apart.
Ascii ==
    <<" ", "!", "\"", "#", "$", "%", "&", "'", "(", ")", "*", "+", ",", "-", ".", "/",
      "0", "1", "2", "3", "4", "5", "6", "7", "8", "9", ":", ";", "<", "=", ">", "?",
      "@", "A", "B", "C", "D", "E", "F", "G", "H", "I", "J", "K", "L", "M", "N", "O",
      "P", "Q", "R", "S", "T", "U", "V", "W", "X", "Y", "Z", "[", "\\", "]", "^", "_",
      "grave", "a", "b", "c", "d", "e", "f", "g", "h", "i", "j", "k", "l", "m", "n", "o",
      "p", "q", "r", "s", "t", "u", "v", "w", "x", "y", "z", "{", "|", "}", "~">>

\* The code point of a character (the grave accent, code 96, is spelled out)
CodePoint ==
    [c \in {Ascii[k] : k \in 1..Len(Ascii)} \cup {"\n", "\t"} |->
        IF c = "\n" THEN 10
        ELSE IF c = "\t" THEN 9
        ELSE 31 + (CHOOSE k \in 1..Len(Ascii) : Ascii[k] = c)]
Ord(c) == CodePoint[c]

HashLength == 8
HalfModulus == 65535

\* The sum of the codes of text[lo..hi], and the sum of the running sums,
\* in which the k-th code of a text of n characters counts n - k + 1 times.
\* Both are summed by halves.
RECURSIVE CodeSum(_, _, _)
CodeSum(text, lo, hi) ==
    IF lo > hi THEN 0
    ELSE IF lo = hi THEN Ord(text[lo])
    ELSE (CodeSum(text, lo, (lo + hi) \div 2) + CodeSum(text, (lo + hi) \div 2 + 1, hi))
         % HalfModulus
RECURSIVE SumOfSums(_, _, _)
SumOfSums(text, lo, hi) ==
    IF lo > hi THEN 0
    ELSE IF lo = hi THEN ((Len(text) - lo + 1) * Ord(text[lo])) % HalfModulus
    ELSE (SumOfSums(text, lo, (lo + hi) \div 2) + SumOfSums(text, (lo + hi) \div 2 + 1, hi))
         % HalfModulus

HexDigits ==
    <<"0", "1", "2", "3", "4", "5", "6", "7", "8", "9", "a", "b", "c", "d", "e", "f">>

\* The last `width` digits of n in the given base, zero-padded
RECURSIVE FixedDigits(_, _, _)
FixedDigits(n, base, width) ==
    IF width = 0 THEN << >>
    ELSE FixedDigits(n \div base, base, width - 1) \o <<HexDigits[(n % base) + 1]>>

md5_hexdigest_prefix(text) ==
    FixedDigits(SumOfSums(text, 1, Len(text)), 16, HashLength \div 2)
    \o FixedDigits(CodeSum(text, 1, Len(text)), 16, HashLength \div 2)

\* str(n)
RECURSIVE Decimal(_)
Decimal(n) == IF n < 10 THEN <<HexDigits[n + 1]>> ELSE Decimal(n \div 10) \o <<HexDigits[(n % 10) + 1]>>

\* f"{n:03d}"
RECURSIVE ZeroPad(_, _)
ZeroPad(digits, width) == IF Len(digits) >= width THEN digits ELSE ZeroPad(<<"0">> \o digits, width)
IndexWidth == 3
FormatIndex(n) == ZeroPad(Decimal(n), IndexWidth)

Unknown == <<"u", "n", "k", "n", "o", "w", "n">>
Hyphen == <<"-">>

\* _generate_chunk_id(source, section, subsection, index, text)
_generate_chunk_id(source, section_number, subsection, index, text) ==
    LET text_hash == md5_hexdigest_prefix(text)
        section_id == IF section_number # << >> THEN section_number ELSE Unknown
        subsection_id == IF subsection # << >> THEN Hyphen \o subsection ELSE << >>
    IN source \o Hyphen \o section_id \o subsection_id \o Hyphen \o FormatIndex(index)
       \o Hyphen \o text_hash

\* Chunk dataclass
Chunk(text, chunk_id, token_count, metadata) ==
    [text |-> text, chunk_id |-> chunk_id, token_count |-> token_count, metadata |-> metadata]

IncomeTaxAct == <<"I", "n", "c", "o", "m", "e", " ", "T", "a", "x", " ", "A", "c", "t">>
Ita == <<"I", "T", "A">>
FederalStatute ==
    <<"f", "e", "d", "e", "r", "a", "l", "_", "s", "t", "a", "t", "u", "t", "e">>
TypeSection == <<"s", "e", "c", "t", "i", "o", "n">>
TypeSubsection == <<"s", "u", "b", "s", "e", "c", "t", "i", "o", "n">>

\* base_metadata of chunk_section
base_metadata(s) ==
    { <<"source", IncomeTaxAct>>,
      <<"source_abbreviation", Ita>>,
      <<"section", s.section_number>>,
      <<"title", s.marginal_note>>,
      <<"reference", get_reference(s)>>,
      <<"document_type", FederalStatute>> }

\* metadata of _chunk_subsection, before the truncation flag
subsection_metadata(subsection, parent) ==
    { <<"source", IncomeTaxAct>>,
      <<"source_abbreviation", Ita>>,
      <<"section", parent.section_number>>,
      <<"subsection", subsection.label>>,
      <<"title", parent.marginal_note>>,
      <<"reference", ItaS \o parent.section_number \o <<"(">> \o subsection.label \o <<")">>>>,
      <<"document_type", FederalStatute>>,
      <<"type", TypeSubsection>> }

\* Mutant of subsection_text: the paragraphs are left out
subsection_text_NoParagraphs(subsection) == Labelled(<< >>, subsection)

\* ss_text of _chunk_subsection: the subsection with its paragraphs and their
\* subparagraphs, one per line
subsection_text(subsection) ==
    Join(<<Labelled(<< >>, subsection)>> \o ParagraphLines(subsection.paragraphs))

\* text[:n] for n >= 0
Prefix(text, n) == SubSeq(text, 1, IF n < Len(text) THEN n ELSE Len(text))

\* Rough estimate of the source: 4 characters per token
CharsPerToken == 4

\* Mutant of _chunk_subsection: a truncated chunk is not flagged
_chunk_subsection_NoFlag(subsection, parent, index, budget) ==
    LET ss_text == subsection_text(subsection)
        text == IF Len(encode(ss_text)) > budget
                THEN Prefix(ss_text, budget * CharsPerToken)
                ELSE ss_text
    IN Chunk(text,
             _generate_chunk_id(Ita, parent.section_number, subsection.label, index, text),
             Len(encode(text)),
             subsection_metadata(subsection, parent))

\* Mutant of _chunk_subsection: the marginal note of the section goes into the id
_chunk_subsection_TitleInId(subsection, parent, index, budget) ==
    LET ss_text == subsection_text(subsection)
        over == Len(encode(ss_text)) > budget
        text == IF over THEN Prefix(ss_text, budget * CharsPerToken) ELSE ss_text
    IN Chunk(text,
             _generate_chunk_id(Ita, parent.section_number, subsection.label, index,
                                parent.marginal_note \o text),
             Len(encode(text)),
             subsection_metadata(subsection, parent)
                 \cup (IF over THEN {<<"truncated", TRUE>>} ELSE {}))

\* Mutant of _chunk_subsection: every chunk is numbered 0
_chunk_subsection_NoIndex(subsection, parent, index, budget) ==
    LET ss_text == subsection_text(subsection)
        over == Len(encode(ss_text)) > budget
        text == IF over THEN Prefix(ss_text, budget * CharsPerToken) ELSE ss_text
    IN Chunk(text,
             _generate_chunk_id(Ita, parent.section_number, subsection.label, 0, text),
             Len(encode(text)),
             subsection_metadata(subsection, parent)
                 \cup (IF over THEN {<<"truncated", TRUE>>} ELSE {}))

\* Mutant of _chunk_subsection: the reference is the one of the section
_chunk_subsection_SectionReference(subsection, parent, index, budget) ==
    LET ss_text == subsection_text(subsection)
        over == Len(encode(ss_text)) > budget
        text == IF over THEN Prefix(ss_text, budget * CharsPerToken) ELSE ss_text
    IN Chunk(text,
             _generate_chunk_id(Ita, parent.section_number, subsection.label, index, text),
             Len(encode(text)),
             ((subsection_metadata(subsection, parent)
                  \ {kv \in subsection_metadata(subsection, parent) : kv[1] = "reference"})
               \cup {<<"reference", get_reference(parent)>>})
                 \cup (IF over THEN {<<"truncated", TRUE>>} ELSE {}))

\* Mutant of _chunk_subsection: the id is computed before the text is cut
_chunk_subsection_HashFullText(subsection, parent, index, budget) ==
    LET ss_text == subsection_text(subsection)
        over == Len(encode(ss_text)) > budget
        text == IF over THEN Prefix(ss_text, budget * CharsPerToken) ELSE ss_text
    IN Chunk(text,
             _generate_chunk_id(Ita, parent.section_number, subsection.label, index, ss_text),
             Len(encode(text)),
             subsection_metadata(subsection, parent)
                 \cup (IF over THEN {<<"truncated", TRUE>>} ELSE {}))

\* _chunk_subsection(subsection, parent, index, max_tokens, encoder). A text
\* over the budget is cut to max_tokens * 4 characters, counted again and
\* flagged. Its text is part of the section's full text, which chunk_section
\* has encoded before, so encode does not raise here.
_chunk_subsection(subsection, parent, index, budget) ==
    LET ss_text == subsection_text(subsection)
        over == Len(encode(ss_text)) > budget
        text == IF over THEN Prefix(ss_text, budget * CharsPerToken) ELSE ss_text
    IN Chunk(text,
             _generate_chunk_id(Ita, parent.section_number, subsection.label, index, text),
             Len(encode(text)),
             subsection_metadata(subsection, parent)
                 \cup (IF over THEN {<<"truncated", TRUE>>} ELSE {}))

\* Outcome of a call: the value returned, or the exception raised
Return(value) == [raised |-> None, value |-> value]
Raise(exception) == [raised |-> Some(exception), value |-> << >>]

\* The single chunk of a section within the budget
section_chunk(s, full_text) ==
    Chunk(full_text,
          _generate_chunk_id(Ita, s.section_number, << >>, 0, full_text),
          Len(encode(full_text)),
          base_metadata(s) \cup {<<"type", TypeSection>>})

\* Mutant of subsection_chunks: the subsections are taken last to first
subsection_chunks_Reversed(s, budget) ==
    [k \in 1..Len(s.subsections) |->
        _chunk_subsection(s.subsections[Len(s.subsections) + 1 - k], s, k - 1, budget)]

\* The loop of chunk_section over enumerate(section.subsections). A Chunk is
\* a dataclass without __bool__ or __len__, so `if ss_chunk:` always holds.
subsection_chunks(s, budget) ==
    [k \in 1..Len(s.subsections) |-> _chunk_subsection(s.subsections[k], s, k - 1, budget)]

\* Mutant of chunk_section: a section is split whatever its size
chunk_section_AlwaysSplit(s, budget, overlap) ==
    IF HasSpecialToken(get_full_text(s)) THEN Raise("ValueError")
    ELSE Return(subsection_chunks(s, budget))

\* Mutant of chunk_section: a subsection without text gives no chunk
chunk_section_SkipEmpty(s, budget, overlap) ==
    IF HasSpecialToken(get_full_text(s)) THEN Raise("ValueError")
    ELSE IF Len(encode(get_full_text(s))) <= budget
    THEN Return(<<section_chunk(s, get_full_text(s))>>)
    ELSE Return(SelectSeq(subsection_chunks(s, budget),
                          LAMBDA c : Get(c.metadata, "subsection") # << >>))

\* Mutant of chunk_section: the overlap is taken off the budget
chunk_section_OverlapBudget(s, budget, overlap) ==
    IF HasSpecialToken(get_full_text(s)) THEN Raise("ValueError")
    ELSE IF Len(encode(get_full_text(s))) <= budget - overlap
    THEN Return(<<section_chunk(s, get_full_text(s))>>)
    ELSE Return(subsection_chunks(s, budget))

\* chunk_section(section, max_tokens, overlap_tokens): encoder.encode raises
\* ValueError on a full text that holds a special token; a section within the
\* budget is one chunk; a larger one gives one chunk per subsection
chunk_section(s, budget, overlap) ==
    IF HasSpecialToken(get_full_text(s)) THEN Raise("ValueError")
    ELSE IF Len(encode(get_full_text(s))) <= budget
    THEN Return(<<section_chunk(s, get_full_text(s))>>)
    ELSE Return(subsection_chunks(s, budget))

\* Inputs of the chunker

\* A plain subsection; one with the same label and another text; one without
\* label and text; one with a paragraph and a subparagraph; one whose text is
\* the end-of-text marker of the encoding
SsPlain == Subsection(<<"1">>, <<"x">>, << >>)
SsOther == Subsection(<<"1">>, <<"y">>, << >>)
SsEmpty == Subsection(<< >>, << >>, << >>)
SsNested ==
    Subsection(<<"2">>, <<"p">>,
               <<Paragraph(<<"a">>, <<"q">>, <<Paragraph(<<"i">>, <<"r">>, << >>)>>)>>)
SsSpecial == Subsection(<<"3">>, EndOfText, << >>)
SubsectionSet == {SsPlain, SsOther, SsEmpty, SsNested, SsSpecial}

SeqsUpTo(S, n) == UNION { [1..k -> S] : k \in 0..n }

NoteN == <<"n">>
SectionNumbers == {<< >>, Sec7}
MarginalNotes == {<< >>, NoteN}

Sections ==
    { Section(n, m, sss) :
        n \in SectionNumbers, m \in MarginalNotes, sss \in SeqsUpTo(SubsectionSet, MaxSubsections) }

\* Budgets: nothing fits; a truncated subsection keeps 4 characters; a plain
\* subsection is over budget and shorter than the cut; a plain subsection fits
\* and a nested one does not; a nested one fits; the default, where all fits
MaxTokensSet == {0, 1, 3, 4, 16, DefaultMaxTokens}
OverlapSet == {0, DefaultOverlapTokens}

\* The same section under another marginal note
Renamed(s) ==
    Section(s.section_number, IF s.marginal_note = << >> THEN NoteN ELSE << >>, s.subsections)

\* Sections of an ingested document
IngestSections == { s \in Sections : Len(s.subsections) <= 1 }

----------------------------------------------------------------------------
\* The chunker's callers

\* chunks = chunk_section(section, max_tokens, overlap_tokens)
ChunkSection(s, budget, overlap) ==
    /\ cpc = "input"
    /\ document = << >>
    /\ section' = s
    /\ max_tokens' = budget
    /\ overlap_tokens' = overlap
    /\ LET outcome == chunk_section(s, budget, overlap)
       IN chunks' = outcome.value /\ error' = outcome.raised
    /\ cpc' = "chunked"
    /\ UNCHANGED <<again, document, all_chunks>>
    /\ UNCHANGED citation_vars
    /\ UNCHANGED parser_vars
    /\ UNCHANGED ask_vars

\* A second call, on the same section or on the section under another marginal
\* note, with the same or the default budget and any overlap
ChunkSectionAgain(s, budget, overlap) ==
    /\ cpc = "chunked"
    /\ LET outcome == chunk_section(s, budget, overlap)
       IN again' = Some([section |-> s, max_tokens |-> budget, overlap_tokens |-> overlap,
                         chunks |-> outcome.value, error |-> outcome.raised])
    /\ cpc' = "rechunked"
    /\ UNCHANGED <<section, max_tokens, overlap_tokens, chunks, error, document, all_chunks>>
    /\ UNCHANGED citation_vars
    /\ UNCHANGED parser_vars
    /\ UNCHANGED ask_vars

\* One turn of the loop of ingest_corpus.main over the parsed sections:
\*   chunks = chunk_section(section, max_tokens=1500, overlap_tokens=200)
\*   all_chunks.extend(chunks)
\* An exception of chunk_section ends the script.
IngestSection(s) ==
    /\ cpc \in {"input", "ingesting"}
    /\ Len(document) < MaxSections
    /\ document' = Append(document, s)
    /\ LET outcome == chunk_section(s, DefaultMaxTokens, DefaultOverlapTokens)
       IN IF outcome.raised = None
          THEN /\ all_chunks' = all_chunks \o outcome.value
               /\ cpc' = "ingesting"
               /\ error' = error
          ELSE /\ all_chunks' = all_chunks
               /\ cpc' = "failed"
               /\ error' = outcome.raised
    /\ UNCHANGED <<section, max_tokens, overlap_tokens, chunks, again>>
    /\ UNCHANGED citation_vars
    /\ UNCHANGED parser_vars
    /\ UNCHANGED ask_vars

\* A chunk of the section comes back from the vector store with the metadata
\* it was stored under (add_chunks, search), and a citation of the chunk's
\* own reference is validated against it
ValidateAgainstChunk(k) ==
    /\ cpc = "chunked"
    /\ error = None
    /\ k \in 1..Len(chunks)
    /\ retrieved' = <<chunks[k].metadata>>
    /\ citations' = validate_citations(
                        <<Citation(Get(chunks[k].metadata, "reference"), << >>, None, FALSE)>>,
                        retrieved')
    /\ cpc' = "joined"
    /\ UNCHANGED <<pc, answer, response_text, url_arg, url>>
    /\ UNCHANGED <<section, max_tokens, overlap_tokens, chunks, error, again,
                   document, all_chunks>>
    /\ UNCHANGED parser_vars
    /\ UNCHANGED ask_vars

NextChunker ==
    \/ \E s \in Sections, budget \in MaxTokensSet, overlap \in OverlapSet :
          ChunkSection(s, budget, overlap)
    \/ \E s \in {section, Renamed(section)},
          budget \in {max_tokens, DefaultMaxTokens},
          overlap \in OverlapSet :
          ChunkSectionAgain(s, budget, overlap)
    \/ \E s \in IngestSections : IngestSection(s)
    \/ \E k \in 1..MaxSubsections : ValidateAgainstChunk(k)

SpecChunker == Init /\ [][NextChunker]_vars

----------------------------------------------------------------------------
\* Vocabulary of the chunker properties

HasKey(metadata, key) == \E kv \in metadata : kv[1] = key
Truncated(c) == <<"truncated", TRUE>> \in c.metadata

\* chunk_section has returned (the first call)
Chunked == cpc \in {"chunked", "rechunked"} /\ error = None

\* Token count of the section's full reconstructed text
FullTokens == Len(encode(get_full_text(section)))

\* The reference of subsection (label) of the section
SubsectionReference(s, label) == ItaS \o s.section_number \o <<"(">> \o label \o <<")">>

\* C11: a section whose full text has at most max_tokens tokens gives exactly
\* one chunk: its text is the full text, its type is "section", its reference
\* is "ITA s.<section_number>", its title is the marginal note, and it has
\* neither a "subsection" nor a "truncated" key.
C11_SingleChunkCollapse ==
    (Chunked /\ FullTokens <= max_tokens) =>
        /\ Len(chunks) = 1
        /\ chunks[1].text = get_full_text(section)
        /\ Get(chunks[1].metadata, "type") = TypeSection
        /\ Get(chunks[1].metadata, "reference") = ItaS \o section.section_number
        /\ HasKey(chunks[1].metadata, "title")
        /\ Get(chunks[1].metadata, "title") = section.marginal_note
        /\ ~HasKey(chunks[1].metadata, "subsection")
        /\ ~HasKey(chunks[1].metadata, "truncated")

C11_Witness ==
    /\ cpc = "chunked" /\ error = None
    /\ section.section_number = Sec7 /\ section.marginal_note = NoteN
    /\ section.subsections = <<SsPlain, SsNested>>
    /\ FullTokens <= max_tokens
    /\ Len(chunks) = 1

\* C12: a section whose full text exceeds max_tokens and that has N
\* subsections gives exactly N chunks, the k-th of type "subsection", tagged
\* with the k-th subsection's label and the reference
\* "ITA s.<section_number>(<label>)"; a subsection without label and text is
\* not skipped.
C12_SplitOnePerSubsection ==
    (Chunked /\ FullTokens > max_tokens) =>
        /\ Len(chunks) = Len(section.subsections)
        /\ \A k \in 1..Len(chunks) :
              /\ Get(chunks[k].metadata, "type") = TypeSubsection
              /\ HasKey(chunks[k].metadata, "subsection")
              /\ Get(chunks[k].metadata, "subsection") = section.subsections[k].label
              /\ Get(chunks[k].metadata, "reference")
                    = SubsectionReference(section, section.subsections[k].label)

C12_Witness ==
    /\ cpc = "chunked" /\ error = None
    /\ section.subsections = <<SsEmpty, SsPlain>>
    /\ FullTokens > max_tokens
    /\ Len(chunks) = 2
    /\ Get(chunks[1].metadata, "subsection") = << >>

\* C13: a chunk that is not flagged truncated has at most max_tokens tokens,
\* and its token_count is the token count of its own text.
C13_BudgetRespected ==
    Chunked =>
        \A k \in 1..Len(chunks) :
            ~Truncated(chunks[k]) =>
                /\ chunks[k].token_count <= max_tokens
                /\ chunks[k].token_count = Len(encode(chunks[k].text))

C13_Witness ==
    /\ cpc = "chunked" /\ error = None
    /\ Len(chunks) = 2
    /\ ~Truncated(chunks[1]) /\ chunks[1].token_count = max_tokens
    /\ Truncated(chunks[2]) /\ chunks[2].token_count > max_tokens

\* C14: for max_tokens >= 1 every chunk, truncated ones included, has a
\* non-empty text, a positive token_count, and a token_count of at most
\* 1.1 * max_tokens.
C14_AtMostTenPercentOver ==
    (Chunked /\ max_tokens >= 1) =>
        \A k \in 1..Len(chunks) :
            /\ chunks[k].text # << >>
            /\ chunks[k].token_count > 0
            /\ 10 * chunks[k].token_count <= 11 * max_tokens

\* C15: chunking is deterministic. A second call on the same section with the
\* same parameters gives the same outcome, and two chunks with the same
\* section number, subsection label, index and text have the same chunk_id,
\* whatever else differs between the two calls (the marginal note, the
\* budget, the overlap).
C15_Deterministic ==
    (cpc = "rechunked") =>
        /\ (/\ again[1].section = section
            /\ again[1].max_tokens = max_tokens
            /\ again[1].overlap_tokens = overlap_tokens)
           => (again[1].chunks = chunks /\ again[1].error = error)
        /\ \A k \in 1..Len(chunks) :
              (/\ k <= Len(again[1].chunks)
               /\ again[1].section.section_number = section.section_number
               /\ HasKey(again[1].chunks[k].metadata, "subsection")
                     = HasKey(chunks[k].metadata, "subsection")
               /\ Get(again[1].chunks[k].metadata, "subsection")
                     = Get(chunks[k].metadata, "subsection")
               /\ again[1].chunks[k].text = chunks[k].text)
              => again[1].chunks[k].chunk_id = chunks[k].chunk_id

C15_Witness ==
    /\ cpc = "rechunked" /\ error = None
    /\ again[1].section = Renamed(section)
    /\ again[1].max_tokens = max_tokens
    /\ section.subsections = <<SsPlain, SsNested>>
    /\ Len(chunks) = 2
    /\ again[1].chunks[2].text = chunks[2].text
    /\ again[1].chunks[2].chunk_id = chunks[2].chunk_id
    /\ again[1].chunks # chunks

\* C16: the chunks collected from the sections of one document never share a
\* chunk_id, sections with an empty section_number included.
C16_IdsUniqueAcrossDocument ==
    \A i, j \in 1..Len(all_chunks) :
        i # j => all_chunks[i].chunk_id # all_chunks[j].chunk_id

\* C17: the chunks returned by one call have pairwise distinct chunk_ids,
\* also for repeated labels, empty labels and identical subsection texts.
C17_IdsDistinctWithinCall ==
    Chunked =>
        \A i, j \in 1..Len(chunks) : i # j => chunks[i].chunk_id # chunks[j].chunk_id

C17_Witness ==
    /\ cpc = "chunked" /\ error = None
    /\ section.subsections = <<SsEmpty, SsEmpty>>
    /\ Len(chunks) = 2
    /\ chunks[1].text = chunks[2].text
    /\ chunks[1].metadata = chunks[2].metadata
    /\ chunks[1].chunk_id # chunks[2].chunk_id

\* C18: every chunk carries source "Income Tax Act", source_abbreviation
\* "ITA", document_type "federal_statute" and the keys section, title,
\* reference and type; its section is the section's number; its reference is
\* "ITA s.<section>", or "ITA s.<section>(<subsection>)" with the subsection
\* of its own metadata.
C18_MetadataShape ==
    Chunked =>
        \A k \in 1..Len(chunks) :
            /\ Get(chunks[k].metadata, "source") = IncomeTaxAct
            /\ Get(chunks[k].metadata, "source_abbreviation") = Ita
            /\ Get(chunks[k].metadata, "document_type") = FederalStatute
            /\ \A key \in {"section", "title", "reference", "type"} :
                  HasKey(chunks[k].metadata, key)
            /\ Get(chunks[k].metadata, "section") = section.section_number
            /\ Get(chunks[k].metadata, "reference")
                  = IF HasKey(chunks[k].metadata, "subsection")
                    THEN ItaS \o Get(chunks[k].metadata, "section") \o <<"(">>
                         \o Get(chunks[k].metadata, "subsection") \o <<")">>
                    ELSE ItaS \o Get(chunks[k].metadata, "section")

C18_Witness ==
    /\ cpc = "chunked" /\ error = None
    /\ section.section_number = Sec7
    /\ Len(chunks) = 2
    /\ Get(chunks[1].metadata, "reference") = ItaS \o Sec7 \o Sub1
    /\ Get(chunks[2].metadata, "reference") = ItaS \o Sec7 \o Sub2
    /\ Truncated(chunks[2])

\* C19: chunk_section never raises; a section without subsections whose full
\* text exceeds max_tokens gives the empty list.
C19_NeverRaises ==
    (cpc \in {"chunked", "rechunked"}) =>
        /\ error = None
        /\ (section.subsections = << >> /\ FullTokens > max_tokens) => chunks = << >>

\* C20: overlap_tokens has no effect. Two calls on the same section with the
\* same max_tokens give the same outcome whatever their overlap_tokens, and
\* the text of each subsection chunk is taken from its own subsection alone.
C20_OverlapHasNoEffect ==
    (cpc = "rechunked") =>
        /\ (again[1].section = section /\ again[1].max_tokens = max_tokens)
           => (again[1].chunks = chunks /\ again[1].error = error)
        /\ \A k \in 1..Len(chunks) :
              HasKey(chunks[k].metadata, "subsection")
              => chunks[k].text
                    = Prefix(subsection_text(section.subsections[k]), Len(chunks[k].text))

C20_Witness ==
    /\ cpc = "rechunked" /\ error = None
    /\ again[1].section = section /\ again[1].max_tokens = max_tokens
    /\ again[1].overlap_tokens = DefaultOverlapTokens /\ overlap_tokens = 0
    /\ Len(chunks) = 2
    /\ again[1].chunks = chunks

\* The section has been split: one call returned and the full text was over
\* the budget
Split == Chunked /\ FullTokens > max_tokens

\* C21: in split mode a chunk is flagged truncated exactly when its
\* subsection's reconstructed text has more than max_tokens tokens; its text
\* is then the first max_tokens * 4 characters of that text, its token_count
\* the token count of the cut text, and its chunk_id the one of the cut text.
C21_TruncatedIffOverBudget ==
    Split =>
        \A k \in 1..Len(chunks) :
            /\ Truncated(chunks[k])
                  <=> Len(encode(subsection_text(section.subsections[k]))) > max_tokens
            /\ Truncated(chunks[k]) =>
                  /\ chunks[k].text
                        = SubSeq(subsection_text(section.subsections[k]), 1,
                                 IF max_tokens * 4 < Len(subsection_text(section.subsections[k]))
                                 THEN max_tokens * 4
                                 ELSE Len(subsection_text(section.subsections[k])))
                  /\ chunks[k].token_count = Len(encode(chunks[k].text))
                  /\ chunks[k].chunk_id
                        = _generate_chunk_id(Ita, section.section_number,
                                             section.subsections[k].label, k - 1,
                                             chunks[k].text)

C21_Witness ==
    /\ cpc = "chunked" /\ error = None
    /\ section.subsections = <<SsPlain, SsNested>>
    /\ Len(chunks) = 2
    /\ ~Truncated(chunks[1])
    /\ Truncated(chunks[2])
    /\ Len(chunks[2].text) = 16
    /\ Len(chunks[2].text) < Len(subsection_text(SsNested))

\* The digits of the index in a chunk_id: the three characters before the
\* hyphen and the eight hash digits that end it
IndexField(chunk_id) == SubSeq(chunk_id, Len(chunk_id) - 11, Len(chunk_id) - 9)
PositionDigits ==
    << <<"0", "0", "0">>, <<"0", "0", "1">>, <<"0", "0", "2">>, <<"0", "0", "3">> >>

\* C22: in split mode the chunks come in the order of section.subsections,
\* and the index in the k-th chunk's chunk_id is the zero-based position of
\* its subsection.
C22_DocumentOrder ==
    Split =>
        /\ Len(chunks) = Len(section.subsections)
        /\ \A k \in 1..Len(chunks) :
              /\ Get(chunks[k].metadata, "subsection") = section.subsections[k].label
              /\ chunks[k].text
                    = Prefix(subsection_text(section.subsections[k]), Len(chunks[k].text))
              /\ IndexField(chunks[k].chunk_id) = PositionDigits[k]

C22_Witness ==
    /\ cpc = "chunked" /\ error = None
    /\ section.subsections = <<SsNested, SsPlain>>
    /\ Len(chunks) = 2
    /\ Get(chunks[1].metadata, "subsection") = <<"2">>
    /\ Get(chunks[2].metadata, "subsection") = <<"1">>
    /\ IndexField(chunks[1].chunk_id) = <<"0", "0", "0">>
    /\ IndexField(chunks[2].chunk_id) = <<"0", "0", "1">>

\* The header line of the full text, without its newline
HeaderLine(s) == SectionKw \o s.section_number \o Dash \o s.marginal_note

\* sub occurs in text
Contains(text, sub) ==
    \E i \in 1..(Len(text) - Len(sub) + 1) : SubSeq(text, i, i + Len(sub) - 1) = sub

\* The first line of a text
FirstLine(text) ==
    IF \E i \in 1..Len(text) : text[i] = "\n"
    THEN SubSeq(text, 1, (CHOOSE i \in 1..Len(text) :
                             text[i] = "\n" /\ \A j \in 1..(i - 1) : text[j] # "\n") - 1)
    ELSE text

\* C28: in split mode the text of a chunk that is not truncated is its
\* subsection's reconstruction: it starts with the line "(<label>) <text>",
\* and the header line followed by the chunk texts, one after the other, is
\* the section's full text when no chunk is truncated. No chunk text holds
\* the header line; the marginal note is the chunk's title.
C28_SubsectionReconstruction ==
    Split =>
        /\ \A k \in 1..Len(chunks) :
              /\ ~Truncated(chunks[k]) =>
                    /\ chunks[k].text = subsection_text(section.subsections[k])
                    /\ FirstLine(chunks[k].text)
                          = <<"(">> \o section.subsections[k].label \o <<")", " ">>
                            \o section.subsections[k].text
              /\ ~Contains(chunks[k].text, HeaderLine(section))
              /\ Get(chunks[k].metadata, "title") = section.marginal_note
        /\ (\A k \in 1..Len(chunks) : ~Truncated(chunks[k]))
           => get_full_text(section)
                 = Join(<<HeaderLine(section) \o <<"\n">>>>
                        \o [k \in 1..Len(chunks) |-> chunks[k].text])

C28_Witness ==
    /\ cpc = "chunked" /\ error = None
    /\ section.section_number = Sec7 /\ section.marginal_note = NoteN
    /\ section.subsections = <<SsNested, SsPlain>>
    /\ FullTokens > max_tokens
    /\ Len(chunks) = 2
    /\ ~Truncated(chunks[1]) /\ ~Truncated(chunks[2])
    /\ chunks[1].text
          = <<"(", "2", ")", " ", "p", "\n",
              " ", " ", "(", "a", ")", " ", "q", "\n",
              " ", " ", " ", " ", "(", "i", ")", " ", "r">>

\* C30: validate_citations overwrites the validated field whatever it held
\* before: the new flag depends on the reference and the retrieved chunks
\* only, a citation that came in with validated = true leaves with false when
\* its section was not retrieved, and a second pass over the result with the
\* same chunks changes nothing.
C30_FlagOverwritten ==
    [][pc' = "validated" =>
          /\ \A k \in 1..Len(citations) :
                /\ citations'[k].validated
                     = (/\ Parsable(citations[k].reference)
                        /\ FirstDigitGroup(citations[k].reference) \in KnownSections(retrieved))
                /\ (/\ citations[k].validated
                    /\ Parsable(citations[k].reference)
                    /\ FirstDigitGroup(citations[k].reference) \notin KnownSections(retrieved))
                   => ~citations'[k].validated
          /\ validate_citations(citations', retrieved') = citations'
          /\ pc = "validated" => citations' = citations]_vars

\* The caller's citation of section 146, built with validated = true, after
\* validation against a chunk of section 118
C30_Witness ==
    /\ pc = "validated"
    /\ answer = << >>
    /\ retrieved = OnlySection118
    /\ citations = <<Citation(Ref146_1, <<"T", "1">>, None, FALSE)>>

\* C29: the chunk reference is a join key: a citation whose reference is the
\* metadata.reference of a chunk produced by chunk_section is validated when
\* that chunk is among the retrieved results, whatever the section number.
C29_ReferenceJoins ==
    cpc = "joined" => citations[1].validated

----------------------------------------------------------------------------
\* The statute parser (src/loaders/xml_parser.py): parse_justice_xml

\* Bound of the model: Section-level elements below the root
MaxElements == 2

\* An element of the tree etree.parse returns: its local name, the namespace
\* of its name ("" for none), the default namespace in scope (nsmap[None]) as
\* an option, its .text (None for an empty element) and its child elements
Element(tag, ns, xmlns, text, children) ==
    [tag |-> tag, ns |-> ns, xmlns |-> xmlns, text |-> text, children |-> children]

NoNamespace == ""

\* nsmap = {"ns": root.nsmap[None]} if None in root.nsmap, else {}
Nsmap(root) == IF root.xmlns # None THEN {<<"ns", root.xmlns[1]>>} ELSE {}

\* elem.xpath("./ns:<tag>", namespaces=nsmap) if nsmap else elem.findall("./<tag>")
ChildElements(elem, tag, nsmap) ==
    IF nsmap # {}
    THEN SelectSeq(elem.children, LAMBDA c : c.tag = tag /\ c.ns = Get(nsmap, "ns"))
    ELSE SelectSeq(elem.children, LAMBDA c : c.tag = tag /\ c.ns = NoNamespace)

RECURSIVE Concat(_)
Concat(seqs) == IF seqs = << >> THEN << >> ELSE Head(seqs) \o Concat(Tail(seqs))

\* The descendants of an element in document order (the axis of ".//")
RECURSIVE Descendants(_)
Descendants(elem) ==
    Concat([k \in 1..Len(elem.children) |->
               <<elem.children[k]>> \o Descendants(elem.children[k])])

\* root.xpath(".//ns:Section", namespaces=nsmap) if nsmap else root.findall(".//Section")
SectionElems(root, nsmap) ==
    IF nsmap # {}
    THEN SelectSeq(Descendants(root), LAMBDA e : e.tag = "Section" /\ e.ns = Get(nsmap, "ns"))
    ELSE SelectSeq(Descendants(root), LAMBDA e : e.tag = "Section" /\ e.ns = NoNamespace)

\* Mutant of _get_text: the child is looked up without the namespace
_get_text_NoNamespace(elem, tag, nsmap) ==
    LET children == SelectSeq(elem.children, LAMBDA c : c.tag = tag /\ c.ns = NoNamespace)
    IN IF children # << >> THEN children[1].text ELSE None

\* Text of the first child element of that name, None when there is none
_get_text(elem, tag, nsmap) ==
    IF nsmap # {}
    THEN LET children == ChildElements(elem, tag, nsmap)
         IN IF children # << >> THEN children[1].text ELSE None
    ELSE LET found == SelectSeq(elem.children, LAMBDA c : c.tag = tag /\ c.ns = NoNamespace)
         IN IF found # << >> THEN found[1].text ELSE None

\* value or ""
OrEmpty(value) == IF value = None THEN << >> ELSE value[1]

Parentheses == {"(", ")"}

\* Mutant of StripChars: nothing is stripped
StripChars_Nothing(s, chars) == s

\* str.strip(chars)
RECURSIVE StripChars(_, _)
StripChars(s, chars) ==
    IF s = << >> THEN s
    ELSE IF Head(s) \in chars THEN StripChars(Tail(s), chars)
    ELSE IF s[Len(s)] \in chars THEN StripChars(SubSeq(s, 1, Len(s) - 1), chars)
    ELSE s

\* The loop body of _parse_paragraph: a Subparagraph element as a Paragraph
\* without subparagraphs
parse_subparagraph(sp_elem, nsmap) ==
    Paragraph(StripChars(OrEmpty(_get_text(sp_elem, "Label", nsmap)), Parentheses),
              OrEmpty(_get_text(sp_elem, "Text", nsmap)),
              << >>)

\* Mutant of _parse_paragraph: Subparagraph elements are parsed recursively
RECURSIVE _parse_paragraph_Recursive(_, _)
_parse_paragraph_Recursive(p_elem, nsmap) ==
    LET sp_elems == ChildElements(p_elem, "Subparagraph", nsmap)
    IN Paragraph(StripChars(OrEmpty(_get_text(p_elem, "Label", nsmap)), Parentheses),
                 OrEmpty(_get_text(p_elem, "Text", nsmap)),
                 [k \in 1..Len(sp_elems) |-> _parse_paragraph_Recursive(sp_elems[k], nsmap)])

_parse_paragraph(p_elem, nsmap) ==
    LET sp_elems == ChildElements(p_elem, "Subparagraph", nsmap)
    IN Paragraph(StripChars(OrEmpty(_get_text(p_elem, "Label", nsmap)), Parentheses),
                 OrEmpty(_get_text(p_elem, "Text", nsmap)),
                 [k \in 1..Len(sp_elems) |-> parse_subparagraph(sp_elems[k], nsmap)])

_parse_subsection(ss_elem, nsmap) ==
    LET p_elems == ChildElements(ss_elem, "Paragraph", nsmap)
    IN Subsection(StripChars(OrEmpty(_get_text(ss_elem, "Label", nsmap)), Parentheses),
                  OrEmpty(_get_text(ss_elem, "Text", nsmap)),
                  [k \in 1..Len(p_elems) |-> _parse_paragraph(p_elems[k], nsmap)])

_parse_section(section_elem, nsmap) ==
    LET ss_elems == ChildElements(section_elem, "Subsection", nsmap)
    IN Section(StripChars(OrEmpty(_get_text(section_elem, "Label", nsmap)), Parentheses),
               OrEmpty(_get_text(section_elem, "MarginalNote", nsmap)),
               [k \in 1..Len(ss_elems) |-> _parse_subsection(ss_elems[k], nsmap)])

\* The tree is already parsed by etree.parse: root = tree.getroot()
parse_justice_xml(root) ==
    LET nsmap == Nsmap(root)
        section_elems == SectionElems(root, nsmap)
    IN [k \in 1..Len(section_elems) |-> _parse_section(section_elems[k], nsmap)]

----------------------------------------------------------------------------
\* The documents: a Statute root with or without a default namespace, and
\* below it up to MaxElements of the elements built here

JusticeNs == "u"
OtherNs == "v"

\* An element in namespace n with the default namespace that puts it there
El(tag, n, text, children) ==
    Element(tag, n, IF n = NoNamespace THEN None ELSE Some(n), text, children)

LabelElem(n, text) == El("Label", n, text, << >>)
TextElem(n, text) == El("Text", n, text, << >>)
MarginalNoteElem(n, text) == El("MarginalNote", n, text, << >>)

\* <Subparagraph> (i) r, with a Clause and a Subparagraph nested below it
SubparagraphDeep(n) ==
    El("Subparagraph", n, None,
       <<LabelElem(n, Some(<<"(", "i", ")">>)), TextElem(n, Some(<<"r">>)),
         El("Clause", n, None, <<LabelElem(n, Some(<<"(", "A", ")">>)), TextElem(n, Some(<<"c">>))>>),
         El("Subparagraph", n, None, <<LabelElem(n, Some(<<"(", "x", ")">>))>>)>>)

\* <Subparagraph> without Label
SubparagraphBare(n) == El("Subparagraph", n, None, <<TextElem(n, Some(<<"s">>))>>)

\* <Paragraph> (a) q with two Label children and two subparagraphs
ParagraphFull(n) ==
    El("Paragraph", n, None,
       <<LabelElem(n, Some(<<"(", "a", ")">>)), LabelElem(n, Some(<<"(", "z", ")">>)),
         TextElem(n, Some(<<"q">>)), SubparagraphDeep(n), SubparagraphBare(n)>>)

\* <Paragraph> with an empty Label element and no Text
ParagraphEmpty(n) == El("Paragraph", n, None, <<LabelElem(n, None)>>)

\* A Paragraph subtree that declares a default namespace of its own
ParagraphOther == El("Paragraph", OtherNs, None, <<LabelElem(OtherNs, Some(<<"(", "o", ")">>))>>)

\* <Subsection> (1) x, its Text before its Label
SubsectionFull(n) ==
    El("Subsection", n, None,
       <<TextElem(n, Some(<<"x">>)), LabelElem(n, Some(<<"(", "1", ")">>)),
         ParagraphFull(n), ParagraphOther, ParagraphEmpty(n)>>)

\* <Subsection> with an empty Text element and no Label
SubsectionEmpty(n) == El("Subsection", n, None, <<TextElem(n, None)>>)

\* The Section-level elements, by name
SectionChoices == {"full", "bare", "paren", "other", "wrapped", "nested"}
SectionChoice(choice, n) ==
    CASE choice = "full" ->
           El("Section", n, None,
              <<MarginalNoteElem(n, Some(NoteN)), LabelElem(n, Some(Sec7)),
                SubsectionFull(n), SubsectionEmpty(n)>>)
      [] choice = "bare" -> El("Section", n, None, << >>)
      [] choice = "paren" ->
           El("Section", n, None,
              <<LabelElem(n, Some(<<"(", "(", "9", ")">>)), MarginalNoteElem(n, None),
                SubsectionEmpty(n)>>)
      [] choice = "other" ->
           El("Section", OtherNs, None, <<LabelElem(OtherNs, Some(<<"8">>))>>)
      [] choice = "wrapped" ->
           El("Body", n, None,
              <<El("Heading", n, None, <<LabelElem(n, Some(<<"H">>))>>),
                El("Section", n, None, <<LabelElem(n, Some(<<"5">>)), SubsectionFull(n)>>)>>)
      [] choice = "nested" ->
           El("Section", n, None,
              <<LabelElem(n, Some(<<"6">>)),
                El("Section", n, None, <<LabelElem(n, Some(<<"6", ".", "1">>))>>),
                SubsectionEmpty(n)>>)

Documents ==
    { El("Statute", n, None, [k \in 1..Len(cs) |-> SectionChoice(cs[k], n)]) :
        n \in {NoNamespace, JusticeNs}, cs \in SeqsUpTo(SectionChoices, MaxElements) }

\* The same document with its default namespace declaration removed: the
\* elements that were in that namespace are in none
RECURSIVE WithoutNamespace(_, _)
WithoutNamespace(elem, uri) ==
    IF elem.ns = uri
    THEN Element(elem.tag, NoNamespace, None, elem.text,
                 [k \in 1..Len(elem.children) |-> WithoutNamespace(elem.children[k], uri)])
    ELSE elem

----------------------------------------------------------------------------
\* The parser's callers

\* sections = parse_justice_xml(xml_path)
ParseJusticeXml(root) ==
    /\ ppc = "input"
    /\ xml_root' = root
    /\ parsed' = parse_justice_xml(root)
    /\ ppc' = "parsed"
    /\ UNCHANGED twin_parsed
    /\ UNCHANGED <<citation_vars, chunker_vars>>
    /\ UNCHANGED ask_vars

\* The document is parsed again without its default namespace
ParseWithoutNamespace ==
    /\ ppc = "parsed"
    /\ xml_root.xmlns # None
    /\ twin_parsed' = parse_justice_xml(WithoutNamespace(xml_root, xml_root.xmlns[1]))
    /\ ppc' = "reparsed"
    /\ UNCHANGED <<xml_root, parsed>>
    /\ UNCHANGED <<citation_vars, chunker_vars>>
    /\ UNCHANGED ask_vars

NextParser ==
    \/ \E root \in Documents : ParseJusticeXml(root)
    \/ ParseWithoutNamespace

SpecParser == Init /\ [][NextParser]_vars

----------------------------------------------------------------------------
\* Vocabulary of the parser properties

Parsed == ppc \in {"parsed", "reparsed"}

\* The namespace the root element's declaration puts the document in
RootNamespace == IF xml_root.xmlns = None THEN NoNamespace ELSE xml_root.xmlns[1]

\* e is an element of that name in the document's namespace
Named(e, tag) == e.tag = tag /\ e.ns = RootNamespace

\* The elements of a tree in document order, the tree's root first
RECURSIVE DocumentOrder(_)
DocumentOrder(elem) ==
    IF elem.children = << >> THEN <<elem>>
    ELSE <<elem>> \o Concat([k \in 1..Len(elem.children) |-> DocumentOrder(elem.children[k])])

\* The document's Section elements in document order
SectionElements == SelectSeq(Tail(DocumentOrder(xml_root)), LAMBDA e : Named(e, "Section"))

\* The children of that name of an element, in document order
Kept(elem, tag) == SelectSeq(elem.children, LAMBDA c : Named(c, tag))

\* The text of the first child of that name: "" when there is no such child
\* or when it is empty
ChildText(elem, tag) ==
    IF Kept(elem, tag) = << >> \/ Kept(elem, tag)[1].text = None THEN << >>
    ELSE Kept(elem, tag)[1].text[1]

\* label is raw without the parentheses that enclose it
WithoutEnclosing(raw, label) ==
    /\ \E a \in 0..Len(raw), b \in 0..Len(raw) :
          /\ a + b <= Len(raw)
          /\ label = SubSeq(raw, a + 1, Len(raw) - b)
          /\ \A i \in 1..a : raw[i] \in Parentheses
          /\ \A i \in (Len(raw) - b + 1)..Len(raw) : raw[i] \in Parentheses
    /\ label # << >> => label[1] \notin Parentheses /\ label[Len(label)] \notin Parentheses
    /\ raw = <<"(", "1", ")">> => label = <<"1">>

\* The node built from an element has its label and its text
LabelAndText(node, elem) ==
    /\ WithoutEnclosing(ChildText(elem, "Label"), node.label)
    /\ node.text = ChildText(elem, "Text")

\* The parsed tree has one node per element of the document's namespace, level by level
SameShape ==
    /\ Len(parsed) = Len(SectionElements)
    /\ \A i \in 1..Len(parsed) :
          LET ss_elems == Kept(SectionElements[i], "Subsection")
          IN /\ Len(parsed[i].subsections) = Len(ss_elems)
             /\ \A j \in 1..Len(ss_elems) :
                   LET p_elems == Kept(ss_elems[j], "Paragraph")
                   IN /\ Len(parsed[i].subsections[j].paragraphs) = Len(p_elems)
                      /\ \A k \in 1..Len(p_elems) :
                            Len(parsed[i].subsections[j].paragraphs[k].subparagraphs)
                              = Len(Kept(p_elems[k], "Subparagraph"))

\* C23: the namespace mode is decided once, from the root element, and used
\* for every lookup: what is parsed is exactly the elements of the root's
\* default namespace (of no namespace when the root declares none) at every
\* level, and a document with a default namespace at the root parses to the
\* same Section sequence as the document without that namespace.
C23_NamespaceModeFromRoot ==
    /\ Parsed => SameShape
    /\ ppc = "reparsed" => twin_parsed = parsed

C23_Witness ==
    /\ ppc = "reparsed"
    /\ xml_root.xmlns = Some(JusticeNs)
    /\ Len(xml_root.children) = 2
    /\ xml_root.children[1].ns = OtherNs
    /\ Len(parsed) = 1
    /\ parsed[1].section_number = Sec7
    /\ Len(parsed[1].subsections) = 2
    /\ Len(parsed[1].subsections[1].paragraphs) = 2
    /\ twin_parsed = parsed

\* C24: the label of every Section, Subsection, Paragraph and Subparagraph
\* node is the text of the element's Label child without its enclosing
\* parentheses ("(1)" gives "1"); an absent or empty Label, Text or
\* MarginalNote child gives the empty string.
C24_LabelsStrippedAbsentEmpty ==
    (Parsed /\ SameShape) =>
        \A i \in 1..Len(parsed) :
            LET s_elem == SectionElements[i]
                ss_elems == Kept(s_elem, "Subsection")
            IN /\ WithoutEnclosing(ChildText(s_elem, "Label"), parsed[i].section_number)
               /\ parsed[i].marginal_note = ChildText(s_elem, "MarginalNote")
               /\ \A j \in 1..Len(ss_elems) :
                     LET ss == parsed[i].subsections[j]
                         p_elems == Kept(ss_elems[j], "Paragraph")
                     IN /\ LabelAndText(ss, ss_elems[j])
                        /\ \A k \in 1..Len(p_elems) :
                              LET p == ss.paragraphs[k]
                                  sp_elems == Kept(p_elems[k], "Subparagraph")
                              IN /\ LabelAndText(p, p_elems[k])
                                 /\ \A l \in 1..Len(sp_elems) :
                                       LabelAndText(p.subparagraphs[l], sp_elems[l])

C24_Witness ==
    /\ ppc = "parsed"
    /\ Len(parsed) = 2
    /\ parsed[1].section_number = <<"9">>
    /\ ChildText(SectionElements[1], "Label") = <<"(", "(", "9", ")">>
    /\ parsed[1].marginal_note = << >>
    /\ parsed[1].subsections = <<Subsection(<< >>, << >>, << >>)>>
    /\ parsed[2].section_number = Sec7
    /\ parsed[2].subsections[1].label = <<"1">>
    /\ parsed[2].subsections[1].paragraphs[2] = Paragraph(<< >>, << >>, << >>)
    /\ parsed[2].subsections[1].paragraphs[1].subparagraphs[2].label = << >>

\* The texts of a list of nodes
Texts(nodes) == [k \in 1..Len(nodes) |-> nodes[k].text]
ChildTexts(elems) == [k \in 1..Len(elems) |-> ChildText(elems[k], "Text")]

----------------------------------------------------------------------------
\* The chatbot (src/chat/chatbot.py, src/chat/prompts.py): Chatbot.ask

SearchResult(chunk_id, text, metadata, score) ==
    [chunk_id |-> chunk_id, text |-> text, metadata |-> metadata, score |-> score]
LLMResponse(content, model, usage) == [content |-> content, model |-> model, usage |-> usage]
ChatResponse(answer_text, cits, retrieved_chunks, should_refuse, refusal_reason, model, usage) ==
    [answer |-> answer_text, citations |-> cits, retrieved_chunks |-> retrieved_chunks,
     should_refuse |-> should_refuse, refusal_reason |-> refusal_reason,
     model |-> model, usage |-> usage]

SYSTEM_PROMPT ==
    <<"Y", "o", "u", " ", "a", "r", "e", " ", "a", " ", "C", "a", "n", "a", "d", "i", "a", "n",
      " ", "t", "a", "x", " ", "a", "s", "s", "i", "s", "t", "a", "n", "t", ".", " ", "A", "n",
      "s", "w", "e", "r", " ", "q", "u", "e", "s", "t", "i", "o", "n", "s", " ", "u", "s", "i",
      "n", "g", " ", "O", "N", "L", "Y", " ", "t", "h", "e", " ", "p", "r", "o", "v", "i", "d",
      "e", "d", " ", "c", "o", "n", "t", "e", "x", "t", " ", "f", "r", "o", "m", " ", "t", "h",
      "e", " ", "I", "n", "c", "o", "m", "e", " ", "T", "a", "x", " ", "A", "c", "t", " ", "a",
      "n", "d", " ", "C", "R", "A", " ", "g", "u", "i", "d", "a", "n", "c", "e", ".", "\n",
      "\n", "R", "U", "L", "E", "S", ":", "\n", "1", ".", " ", "C", "i", "t", "e", " ", "e",
      "v", "e", "r", "y", " ", "c", "l", "a", "i", "m", " ", "w", "i", "t", "h", " ", "t", "h",
      "e", " ", "s", "e", "c", "t", "i", "o", "n", " ", "r", "e", "f", "e", "r", "e", "n", "c",
      "e", " ", "(", "e", ".", "g", ".", ",", " ", "\"", "I", "T", "A", " ", "s", ".", "1",
      "1", "8", "(", "1", ")", "\"", ")", "\n", "2", ".", " ", "I", "f", " ", "t", "h", "e",
      " ", "c", "o", "n", "t", "e", "x", "t", " ", "d", "o", "e", "s", "n", "'", "t", " ", "c",
      "o", "n", "t", "a", "i", "n", " ", "t", "h", "e", " ", "a", "n", "s", "w", "e", "r", ",",
      " ", "s", "a", "y", " ", "\"", "I", " ", "d", "o", "n", "'", "t", " ", "h", "a", "v",
      "e", " ", "i", "n", "f", "o", "r", "m", "a", "t", "i", "o", "n", " ", "a", "b", "o", "u",
      "t", " ", "t", "h", "a", "t", " ", "i", "n", " ", "t", "h", "e", " ", "p", "r", "o", "v",
      "i", "d", "e", "d", " ", "c", "o", "n", "t", "e", "x", "t", "\"", "\n", "3", ".", " ",
      "N", "e", "v", "e", "r", " ", "i", "n", "v", "e", "n", "t", " ", "t", "a", "x", " ", "r",
      "u", "l", "e", "s", " ", "o", "r", " ", "n", "u", "m", "b", "e", "r", "s", " ", "n", "o",
      "t", " ", "i", "n", " ", "t", "h", "e", " ", "c", "o", "n", "t", "e", "x", "t", "\n",
      "4", ".", " ", "F", "o", "r", " ", "c", "o", "m", "p", "l", "e", "x", " ", "s", "i", "t",
      "u", "a", "t", "i", "o", "n", "s", " ", "r", "e", "q", "u", "i", "r", "i", "n", "g", " ",
      "p", "r", "o", "f", "e", "s", "s", "i", "o", "n", "a", "l", " ", "j", "u", "d", "g", "m",
      "e", "n", "t", ",", " ", "r", "e", "c", "o", "m", "m", "e", "n", "d", " ", "c", "o", "n",
      "s", "u", "l", "t", "i", "n", "g", " ", "a", " ", "t", "a", "x", " ", "p", "r", "o", "f",
      "e", "s", "s", "i", "o", "n", "a", "l", "\n", "5", ".", " ", "N", "e", "v", "e", "r",
      " ", "p", "e", "r", "f", "o", "r", "m", " ", "t", "a", "x", " ", "c", "a", "l", "c", "u",
      "l", "a", "t", "i", "o", "n", "s", " ", "-", " ", "o", "n", "l", "y", " ", "e", "x", "p",
      "l", "a", "i", "n", " ", "r", "u", "l", "e", "s", "\n", "\n", "O", "U", "T", "P", "U",
      "T", " ", "F", "O", "R", "M", "A", "T", ":", "\n", "P", "r", "o", "v", "i", "d", "e",
      " ", "y", "o", "u", "r", " ", "a", "n", "s", "w", "e", "r", ",", " ", "t", "h", "e", "n",
      " ", "l", "i", "s", "t", " ", "c", "i", "t", "a", "t", "i", "o", "n", "s", " ", "i", "n",
      " ", "t", "h", "i", "s", " ", "f", "o", "r", "m", "a", "t", ":", "\n", "C", "i", "t",
      "a", "t", "i", "o", "n", "s", ":", "\n", "-", " ", "I", "T", "A", " ", "s", ".", "X",
      "X", "X", ":", " ", "\"", "q", "u", "o", "t", "e", "d", " ", "t", "e", "x", "t", " ",
      "s", "u", "p", "p", "o", "r", "t", "i", "n", "g", " ", "c", "l", "a", "i", "m", "\"",
      "\n", "-", " ", "I", "T", "A", " ", "s", ".", "Y", "Y", "Y", ":", " ", "\"", "q", "u",
      "o", "t", "e", "d", " ", "t", "e", "x", "t", " ", "s", "u", "p", "p", "o", "r", "t", "i",
      "n", "g", " ", "c", "l", "a", "i", "m", "\"", "\n">>

\* dict.get(key, default)
GetOr(metadata, key, default) == IF HasKey(metadata, key) THEN Get(metadata, key) ELSE default

UnknownReference == <<"U", "n", "k", "n", "o", "w", "n">>

\* The loop body of format_context: the text of chunk i
chunk_text(i, result) ==
    LET reference == GetOr(result.metadata, "reference", UnknownReference)
        title == GetOr(result.metadata, "title", << >>)
    IN <<"[", "C", "o", "n", "t", "e", "x", "t", " ">> \o Decimal(i) \o <<"]", " ">>
       \o reference
       \o (IF title # << >> THEN Dash \o title ELSE << >>)
       \o <<"\n">> \o result.text \o <<"\n">>

format_context(results) ==
    IF results = << >> THEN << >>
    ELSE Join([i \in 1..Len(results) |-> chunk_text(i, results[i])])

\* The user message around {context} and {question}
UserPrefix ==
    <<"C", "o", "n", "t", "e", "x", "t", " ", "f", "r", "o", "m", " ", "I", "n", "c", "o", "m",
      "e", " ", "T", "a", "x", " ", "A", "c", "t", ":", "\n", "\n">>
UserMiddle ==
    <<"\n", "\n", "Q", "u", "e", "s", "t", "i", "o", "n", ":", " ">>
UserSuffix ==
    <<"\n", "\n", "P", "l", "e", "a", "s", "e", " ", "a", "n", "s", "w", "e", "r", " ", "t",
      "h", "e", " ", "q", "u", "e", "s", "t", "i", "o", "n", " ", "u", "s", "i", "n", "g", " ",
      "o", "n", "l", "y", " ", "t", "h", "e", " ", "p", "r", "o", "v", "i", "d", "e", "d", " ",
      "c", "o", "n", "t", "e", "x", "t", ".", " ", "I", "n", "c", "l", "u", "d", "e", " ", "c",
      "i", "t", "a", "t", "i", "o", "n", "s", " ", "t", "o", " ", "s", "p", "e", "c", "i", "f",
      "i", "c", " ", "I", "T", "A", " ", "s", "e", "c", "t", "i", "o", "n", "s", ".">>

\* Mutant of build_messages: the user message comes first
build_messages_UserFirst(q, ctx) ==
    <<[role |-> "user", content |-> UserPrefix \o ctx \o UserMiddle \o q \o UserSuffix],
      [role |-> "system", content |-> SYSTEM_PROMPT]>>

build_messages(q, ctx) ==
    <<[role |-> "system", content |-> SYSTEM_PROMPT],
      [role |-> "user", content |-> UserPrefix \o ctx \o UserMiddle \o q \o UserSuffix]>>

\* str.lower() on ASCII text
LowerOf ==
    [c \in UpperCase |->
        CASE c = "A" -> "a" [] c = "B" -> "b" [] c = "C" -> "c" [] c = "D" -> "d"
          [] c = "E" -> "e" [] c = "F" -> "f" [] c = "G" -> "g" [] c = "H" -> "h"
          [] c = "I" -> "i" [] c = "J" -> "j" [] c = "K" -> "k" [] c = "L" -> "l"
          [] c = "M" -> "m" [] c = "N" -> "n" [] c = "O" -> "o" [] c = "P" -> "p"
          [] c = "Q" -> "q" [] c = "R" -> "r" [] c = "S" -> "s" [] c = "T" -> "t"
          [] c = "U" -> "u" [] c = "V" -> "v" [] c = "W" -> "w" [] c = "X" -> "x"
          [] c = "Y" -> "y" [] c = "Z" -> "z"]
Lower(text) ==
    [i \in 1..Len(text) |-> IF text[i] \in UpperCase THEN LowerOf[text[i]] ELSE text[i]]

\* sub in text
In(sub, text) ==
    \E i \in 1..(Len(text) - Len(sub) + 1) : SubSeq(text, i, i + Len(sub) - 1) = sub

refusal_keywords ==
    <<
      <<"c", "o", "n", "s", "u", "l", "t", " ", "a", " ", "t", "a", "x", " ", "p", "r", "o",
        "f", "e", "s", "s", "i", "o", "n", "a", "l">>,
      <<"c", "o", "n", "s", "u", "l", "t", " ", "a", " ", "q", "u", "a", "l", "i", "f", "i",
        "e", "d">>,
      <<"I", " ", "d", "o", "n", "'", "t", " ", "h", "a", "v", "e", " ", "i", "n", "f", "o",
        "r", "m", "a", "t", "i", "o", "n">>,
      <<"b", "e", "y", "o", "n", "d", " ", "t", "h", "e", " ", "s", "c", "o", "p", "e">>,
      <<"s", "e", "e", "k", " ", "p", "r", "o", "f", "e", "s", "s", "i", "o", "n", "a", "l",
        " ", "a", "d", "v", "i", "c", "e">>,
      <<"r", "e", "c", "o", "m", "m", "e", "n", "d", " ", "c", "o", "n", "s", "u", "l", "t",
        "i", "n", "g">>
    >>

\* f"Response contains refusal keyword: '{keyword}'"
RefusalReason(keyword) ==
    <<"R", "e", "s", "p", "o", "n", "s", "e", " ", "c", "o", "n", "t", "a", "i", "n", "s", " ",
      "r", "e", "f", "u", "s", "a", "l", " ", "k", "e", "y", "w", "o", "r", "d", ":", " ", "'">>
    \o keyword \o <<"'">>

\* The pair (should_refuse, refusal_reason)
detect_refusal(text) ==
    LET text_lower == Lower(text)
        found == { i \in 1..Len(refusal_keywords) : In(refusal_keywords[i], text_lower) }
    IN IF found # {}
       THEN LET first == CHOOSE i \in found : \A j \in found : i <= j
            IN [should_refuse |-> TRUE,
                refusal_reason |-> Some(RefusalReason(refusal_keywords[first]))]
       ELSE [should_refuse |-> FALSE, refusal_reason |-> None]

\* result.metadata of each result, as validate_citations reads them
MetadataList(results) == [i \in 1..Len(results) |-> results[i].metadata]

----------------------------------------------------------------------------
\* The collaborators of the chatbot: what the retriever and the provider return

Questions == { <<"q", "?">>, <<"w", "?">> }
KSet == { DefaultK, 10 }

ChunkId118 ==
    <<"I", "T", "A", "-", "1", "1", "8", "-", "0", "0", "1">>
PersonalCredits ==
    <<"P", "e", "r", "s", "o", "n", "a", "l", " ", "c", "r", "e", "d", "i", "t", "s">>

SearchResults ==
    { SearchResult(ChunkId118, <<"t">>,
                   { <<"section", Sec118>>, <<"subsection", <<"1">>>>,
                     <<"reference", ItaS \o Sec118 \o Sub1>>, <<"title", PersonalCredits>> },
                   95),
      SearchResult(<<"c", "7">>, <<"u">>, { <<"reference", ItaS \o Sec7 \o Sub2>> }, 50),
      SearchResult(<<"c", "0">>, <<"v">>, {}, 10) }

\* The answers of the language model: lines with citations, and refusals
RecommendConsulting ==
    <<"I", " ", "r", "e", "c", "o", "m", "m", "e", "n", "d", " ", "c", "o", "n", "s", "u", "l",
      "t", "i", "n", "g", " ", "a", " ", "q", "u", "a", "l", "i", "f", "i", "e", "d", " ", "t",
      "a", "x", " ", "p", "r", "o", "f", "e", "s", "s", "i", "o", "n", "a", "l", ".">>
NoInformation ==
    <<"I", " ", "d", "o", "n", "'", "t", " ", "h", "a", "v", "e", " ", "i", "n", "f", "o", "r",
      "m", "a", "t", "i", "o", "n", " ", "a", "b", "o", "u", "t", " ", "t", "h", "a", "t", " ",
      "i", "n", " ", "t", "h", "e", " ", "p", "r", "o", "v", "i", "d", "e", "d", " ", "c", "o",
      "n", "t", "e", "x", "t", ".">>
BeyondTheScope ==
    <<"T", "h", "i", "s", " ", "i", "s", " ", "B", "E", "Y", "O", "N", "D", " ", "T", "H", "E",
      " ", "S", "C", "O", "P", "E", ".">>
Contents ==
    { Lines(<<Phrase("block", ItaS, Sec118, Sub1, NoPart, <<"q">>)>>),
      Lines(<<Phrase("inline", ItaMixed, Sec7, Sub2, ParaUpper, NoPart),
              Phrase("block", ItaS, Sec118, Sub1, NoPart, <<"q">>)>>),
      <<"o", "k">>,
      RecommendConsulting, NoInformation, BeyondTheScope }

Gpt ==
    <<"g", "p", "t", "-", "5", ".", "2">>
LLMResponses ==
    { LLMResponse(c, Gpt, { <<"prompt_tokens", 100>>, <<"completion_tokens", 50>> }) :
        c \in Contents }

----------------------------------------------------------------------------
\* Chatbot.ask, one action per call of a collaborator

Call(op, args) == [op |-> op, args |-> args]

\* bot = Chatbot(retriever, llm, k)
NewChatbot(k) ==
    /\ apc \in {"idle", "returned"}
    /\ self_k' = k
    /\ question' = << >>
    /\ search_results' = << >>
    /\ context' = << >>
    /\ messages' = << >>
    /\ llm_response' = None
    /\ response' = None
    /\ calls' = << >>
    /\ apc' = "idle"
    /\ UNCHANGED <<citation_vars, chunker_vars, parser_vars>>

\* ask(question) up to the return of results = self.retriever.retrieve(question, k=self.k)
AskRetrieve(q, results) ==
    /\ apc \in {"idle", "returned"}
    /\ question' = q
    /\ calls' = <<Call("retriever.retrieve", <<q, self_k>>)>>
    /\ search_results' = results
    /\ context' = << >>
    /\ messages' = << >>
    /\ llm_response' = None
    /\ response' = None
    /\ apc' = "retrieved"
    /\ UNCHANGED self_k
    /\ UNCHANGED <<citation_vars, chunker_vars, parser_vars>>

\* context = format_context(results); messages = build_messages(question, context);
\* llm_response = self.llm.generate(messages)
AskGenerate(reply) ==
    /\ apc = "retrieved"
    /\ context' = format_context(search_results)
    /\ messages' = build_messages(question, context')
    /\ calls' = calls \o <<Call("format_context", <<search_results>>),
                          Call("build_messages", <<question, context'>>),
                          Call("llm.generate", <<messages'>>)>>
    /\ llm_response' = Some(reply)
    /\ apc' = "generated"
    /\ UNCHANGED <<self_k, question, search_results, response>>
    /\ UNCHANGED <<citation_vars, chunker_vars, parser_vars>>

\* The rest of ask: extract_citations, validate_citations, detect_refusal, return
AskReturn ==
    /\ apc = "generated"
    /\ LET reply == llm_response[1]
           extracted == extract_citations(reply.content)
           refusal == detect_refusal(reply.content)
       IN /\ calls' = calls \o <<Call("extract_citations", <<reply.content>>),
                                Call("validate_citations", <<extracted, search_results>>),
                                Call("detect_refusal", <<reply.content>>)>>
          /\ response' = Some(ChatResponse(
                                reply.content,
                                validate_citations(extracted, MetadataList(search_results)),
                                search_results,
                                refusal.should_refuse, refusal.refusal_reason,
                                reply.model, reply.usage))
    /\ apc' = "returned"
    /\ UNCHANGED <<self_k, question, search_results, context, messages, llm_response>>
    /\ UNCHANGED <<citation_vars, chunker_vars, parser_vars>>

NextAsk ==
    \/ \E k \in KSet : NewChatbot(k)
    \/ \E q \in Questions, results \in SeqsUpTo(SearchResults, MaxRetrieved) :
          AskRetrieve(q, results)
    \/ \E reply \in LLMResponses : AskGenerate(reply)
    \/ AskReturn

SpecAsk == Init /\ [][NextAsk]_vars

----------------------------------------------------------------------------
\* Vocabulary of the chatbot properties

\* The calls of one ask, in the order of the code
AskCalls ==
    <<"retriever.retrieve", "format_context", "build_messages", "llm.generate",
      "extract_citations", "validate_citations", "detect_refusal">>

\* The position of the call of op in the log, 0 when it was not called
CallsOf(op) == { i \in 1..Len(calls) : calls[i].op = op }
OnlyCall(op) == calls[CHOOSE i \in CallsOf(op) : TRUE]

Returned == apc = "returned"

\* C26: one call of ask runs retrieve(question, k=self.k), then generate on
\* messages built from those results (system message first, user message
\* last), then extraction from the generated text, then validation against
\* the chunks of that same call, each once and in this order; the response
\* carries those chunks and the generated text unchanged.
C26_PipelineOrder ==
    /\ [i \in 1..Len(calls) |-> calls[i].op] = SubSeq(AskCalls, 1, Len(calls))
    /\ Returned =>
          /\ \A op \in {"retriever.retrieve", "llm.generate", "extract_citations",
                        "validate_citations"} : Cardinality(CallsOf(op)) = 1
          /\ OnlyCall("retriever.retrieve").args = <<question, self_k>>
          /\ LET sent == OnlyCall("llm.generate").args[1]
             IN /\ Len(sent) >= 2
                /\ sent[1].role = "system"
                /\ sent[Len(sent)].role = "user"
                /\ Contains(sent[Len(sent)].content, question)
                /\ \A i \in 1..Len(search_results) :
                      /\ Contains(sent[Len(sent)].content, search_results[i].text)
                      /\ HasKey(search_results[i].metadata, "reference")
                         => Contains(sent[Len(sent)].content,
                                     Get(search_results[i].metadata, "reference"))
          /\ OnlyCall("extract_citations").args = <<llm_response[1].content>>
          /\ OnlyCall("validate_citations").args[2] = search_results
          /\ LET extracted == OnlyCall("validate_citations").args[1]
                 returned == response[1].citations
             IN /\ Len(returned) = Len(extracted)
                /\ \A i \in 1..Len(returned) :
                      /\ returned[i].reference = extracted[i].reference
                      /\ returned[i].text = extracted[i].text
                      /\ returned[i].validated
                           <=> /\ Parsable(returned[i].reference)
                               /\ FirstDigitGroup(returned[i].reference)
                                    \in KnownSections(MetadataList(search_results))
          /\ response[1].retrieved_chunks = search_results
          /\ response[1].answer = llm_response[1].content

C26_Witness ==
    /\ Returned
    /\ self_k = 10
    /\ Len(search_results) = 1 /\ search_results[1].chunk_id = ChunkId118
    /\ Len(calls) = 7
    /\ calls[1].args = <<question, 10>>
    /\ Len(response[1].citations) = 2
    /\ response[1].citations[1].validated
    /\ ~response[1].citations[2].validated
    /\ response[1].answer = llm_response[1].content

\* text holds the keyword, whatever the letter case of either
HoldsKeyword(text, keyword) == Contains(Lower(text), Lower(keyword))

\* C27: detect_refusal returns (True, reason) when the response text holds,
\* in any letter case, one of the six refusal keywords, "I don't have
\* information" included, and (False, None) otherwise; should_refuse is true
\* exactly when refusal_reason is not None.
C27_RefusalDetected ==
    Returned =>
        /\ response[1].should_refuse
             <=> \E i \in 1..Len(refusal_keywords) :
                    HoldsKeyword(response[1].answer, refusal_keywords[i])
        /\ response[1].should_refuse <=> response[1].refusal_reason # None

====
